---- MODULE Spec2Model ----
(***************************************************************************)
(* State-machine model of the article-enrichment pipeline of the RSS news  *)
(* reader: ParserNewsFormer.form_news (selection, concurrent NewsObject    *)
(* construction, ordered collection), NewsObject (record building),        *)
(* WebParser (page scan) and the image checkers of data_checkers.py.       *)
(*                                                                         *)
(* Python values are modelled as follows.                                  *)
(*   - str used with endswith / in / re.search: a tuple of 1-char strings  *)
(*   - an optional value: None is << >>, a present value v is << v >>      *)
(*   - a description text: a tuple of token records (see Tok)              *)
(***************************************************************************)
EXTENDS Integers, Sequences, FiniteSets, TLC

VARIABLES
    feed,           \* rss_page.find_all("item"): the feed items, in feed order
    news_limit,     \* ParserNewsFormer._news_limit (optional positive int)
    news_date,      \* ParserNewsFormer._news_date (optional target day)
    mainpc,         \* position of the thread that runs form_news
    news_list,      \* form_news: news_list, the selected items
    task,           \* the futures of executor_pool / the running page scans
    pos,            \* form_news: number of futures already collected
    news_storage,   \* form_news: news_storage, the list that is returned
    error,          \* the exception form_news raised (None while none)
    dupInstance,    \* ImageDuplicateChecker.instance (class attribute)
    duplicates,     \* ImageDuplicateChecker.duplicates (class attribute)
    finished,       \* history: the scans (flags) in the order they completed
    scans,          \* number of WebParser instances a test driver has created
    previous,       \* history: the log of the test driver's preceding scan
    run             \* main(), its ParserManager, NewsStorage and the storage file

vars == << feed, news_limit, news_date, mainpc, news_list, task, pos,
           news_storage, error, dupInstance, duplicates, finished, scans, previous, run >>

-----------------------------------------------------------------------------
(* Optional values and strings                                             *)

None == << >>

Some(v) == << v >>

IsNone(o) == o = None

Val(o) == o[1]

\* s.endswith(suf)
EndsWith(s, suf) ==
    /\ Len(s) >= Len(suf)
    /\ SubSeq(s, Len(s) - Len(suf) + 1, Len(s)) = suf

\* s.endswith((suf1, suf2, ...))
EndsWithAny(s, sufs) == \E suf \in sufs : EndsWith(s, suf)

\* sub in s
Contains(s, sub) ==
    \E i \in 1..(Len(s) - Len(sub) + 1) : SubSeq(s, i, i + Len(sub) - 1) = sub

Digits == {"0", "1", "2", "3", "4", "5", "6", "7", "8", "9"}

\* re.search(r"\d0{1,2}(:|x)\d{1,2}0", s)
IconsPatternSearch(s) ==
    \E i \in 1..Len(s) : \E z \in 1..2 : \E d \in 1..2 :
        /\ i + z + 1 + d + 1 <= Len(s)
        /\ s[i] \in Digits
        /\ \A k \in 1..z : s[i + k] = "0"
        /\ s[i + z + 1] \in {":", "x"}
        /\ \A k \in 1..d : s[i + z + 1 + k] \in Digits
        /\ s[i + z + 1 + d + 1] = "0"

-----------------------------------------------------------------------------
(* The web: what requests.get answers.  URLs are tuples of characters.     *)

Http == <<"h", "t", "t", "p", ":", "/", "/">>

SchemeSep == <<":", "/", "/">>

\* index of the first occurrence of sub in s (0 when there is none)
Find(s, sub) ==
    IF Contains(s, sub)
    THEN CHOOSE i \in 1..Len(s) :
            /\ i + Len(sub) - 1 <= Len(s)
            /\ SubSeq(s, i, i + Len(sub) - 1) = sub
            /\ \A j \in 1..(i - 1) : SubSeq(s, j, j + Len(sub) - 1) # sub
    ELSE 0

\* urlparse(url).scheme
UrlScheme(url) ==
    IF Find(url, SchemeSep) = 0 THEN << >> ELSE SubSeq(url, 1, Find(url, SchemeSep) - 1)

\* urlparse(url).netloc
UrlNetloc(url) ==
    IF Find(url, SchemeSep) = 0 THEN << >>
    ELSE LET rest == SubSeq(url, Find(url, SchemeSep) + 3, Len(url))
             cut  == Find(rest, <<"/">>)
         IN  IF cut = 0 THEN rest ELSE SubSeq(rest, 1, cut - 1)

\* article pages
PageA == Http \o <<"n", "/", "1">>
PageB == Http \o <<"n", "/", "2">>
PageDown == Http \o <<"d", "o", "w", "n", "/", "3">>
PageSoft == Http \o <<"s", "/", "5">>
PageReset == Http \o <<"x", "/", "6">>

\* image sources found in img tags
ImgA == Http \o <<"i", "/", "a", ".", "j", "p", "g">>
ImgB == Http \o <<"i", "/", "b", ".", "p", "n", "g">>
ImgGif == Http \o <<"i", "/", "c", ".", "g", "i", "f">>
ImgSvg == Http \o <<"i", "/", "c", ".", "s", "v", "g">>
ImgColon == Http \o <<"i", "/", "e", ":", ":", "f">>
ImgBbc == Http \o <<"b", "b", "c", "/", "1", ".", "j", "p", "g">>
ImgBbcLine == Http \o <<"b", "b", "c", "/", "l", "i", "n", "e">>
ImgStats == Http \o <<"s", "t", "a", "t", "s", "/", "p">>
ImgIcon == Http \o <<"i", "/", "2", "0", "0", "x", "2", "0", "0">>
ImgRel == <<"/", "r", ".", "j", "p", "g">>
ImgGone == Http \o <<"d", "o", "w", "n", "/", "z", ".", "j", "p", "g">>

\* hosts that refuse the connection: requests.get raises ConnectionError
DownHost == <<"d", "o", "w", "n">>

\* a host that answers every path with a document (status 200)
SoftHost == << "s" >>

\* a host that serves its article page and closes the connection on every
\* other request: requests.get raises ConnectionError
ResetHost == << "x" >>

\* URLs for which the server answers with a document (status 200); every
\* other URL of a reachable host is answered 404
Existing ==
    { PageA, PageB, ImgA, ImgB, ImgGif, ImgSvg, ImgColon, ImgBbc, ImgBbcLine,
      ImgStats, ImgIcon, Http \o <<"n", "/">> \o ImgRel, PageSoft, PageReset }

\* requests.get(url): the exception it raises, or the status code
Get(url) ==
    LET host == UrlNetloc(url) IN
    IF Find(url, SchemeSep) = 0 THEN "MissingSchema"
    ELSE IF host = DownHost THEN "ConnectionError"
    ELSE IF url \in Existing THEN "200"
    ELSE IF host = ResetHost THEN "ConnectionError"
    ELSE IF host = SoftHost THEN "200"
    ELSE "404"

RequestExceptions == {"MissingSchema", "InvalidSchema", "ConnectionError"}

-----------------------------------------------------------------------------
(* data_checkers.py.  An img tag is a record                               *)
(*   src, alt : optional strings (tag.get), parent : the parent tag's      *)
(*   name (tag.findParent().name), srcset : optional (tag.get("srcset")).  *)

\* CaptionHrefChecker.check
CaptionHrefChecker(tag) ==
    IF ~IsNone(tag.alt) /\ Val(tag.alt) # << >>
    THEN Contains(Val(tag.alt), <<"h", "r", "e", "f">>)
    ELSE FALSE

\* Icons.check
Icons(tag) == IconsPatternSearch(Val(tag.src))

statistics_collection_sites ==
    { <<"s", "t", "a", "t", "s">>,
      <<"s", "c", "o", "r", "e", "c", "a", "r", "d", "r", "e", "s", "e", "a", "r", "c", "h">>,
      <<"n", "o", "s", "c", "r", "i", "p", "t">>,
      <<"t", "o", "p", "-", "f", "w", "z", "1">>,
      <<"m", "c", ".", "y", "a", "n", "d", "e", "x", ".", "r", "u">> }

\* StatsResearchLinks.check
StatsResearchLinks(tag) ==
    \E site \in statistics_collection_sites : Contains(Val(tag.src), site)

\* ImageBBCComNotSrc.check without the test for "line"
ImageBBCComNotSrcNoLine(tag) ==
    IF Contains(Val(tag.src), <<"b", "b", "c">>) THEN IsNone(tag.srcset) ELSE FALSE

\* ImageBBCComNotSrc.check
ImageBBCComNotSrc(tag) ==
    IF Contains(Val(tag.src), <<"b", "b", "c">>)
    THEN IsNone(tag.srcset) \/ Contains(Val(tag.src), <<"l", "i", "n", "e">>)
    ELSE FALSE

\* ImageDoubleColon.check
ImageDoubleColon(tag) == Contains(Val(tag.src), <<":", ":">>)

\* NewsPageLogoChecker.check
NewsPageLogoChecker(tag) == tag.parent = "a"

prohibited_extensions == { <<"g", "i", "f">>, <<"s", "v", "g">> }

\* ImageExtensionChecker.check
ImageExtensionChecker(tag) == EndsWithAny(Val(tag.src), prohibited_extensions)

\* NoImageExistenceChecker.check
NoImageExistenceChecker(tag) == IsNone(tag.src) \/ Val(tag.src) = << >>

\* html_image_checker, the checkers listed before ImageDuplicateChecker:
\* the name of the first one that returns True, "pass" when none does
ChecksBeforeDuplicate(tag) ==
    IF NoImageExistenceChecker(tag) THEN "NoImageExistenceChecker"
    ELSE IF ImageExtensionChecker(tag) THEN "ImageExtensionChecker"
    ELSE IF NewsPageLogoChecker(tag) THEN "NewsPageLogoChecker"
    ELSE "pass"

\* html_image_checker, the checkers listed after ImageDuplicateChecker
ChecksAfterDuplicate(tag) ==
    IF ImageDoubleColon(tag) THEN "ImageDoubleColon"
    ELSE IF ImageBBCComNotSrc(tag) THEN "ImageBBCComNotSrc"
    ELSE IF StatsResearchLinks(tag) THEN "StatsResearchLinks"
    ELSE IF Icons(tag) THEN "Icons"
    ELSE "pass"

\* html_caption_checker
html_caption_checker(tag) == ~CaptionHrefChecker(tag)

\* get_nested_url: the exception raised, or the returned optional URL
get_nested_url(tag, page_url) ==
    LET nested_url == UrlScheme(page_url) \o SchemeSep \o UrlNetloc(page_url)
                        \o <<"/">> \o Val(tag.src)
        resp == Get(nested_url)
    IN  IF resp \in RequestExceptions THEN [raised |-> resp, url |-> None]
        ELSE IF resp = "404" THEN [raised |-> "", url |-> None]
        ELSE [raised |-> "", url |-> Some(nested_url)]

\* get_img_data after html_image_checker accepted the tag: html_caption_checker,
\* then the nested URL and the reachability probe.
\* outcome: "ok" (image_url, caption returned), the name of what returned
\* (None, None), or "raised" with the exception that leaves get_img_data
get_img_data_tail(tag, page_url) ==
    IF ~html_caption_checker(tag)
    THEN [outcome |-> "CaptionHrefChecker", raised |-> "", image |-> None, caption |-> None]
    ELSE LET nested == get_nested_url(tag, page_url)
             image_url ==
                IF ~IsNone(nested.url)
                   /\ EndsWithAny(Val(nested.url), { <<"j", "p", "g">>, <<"p", "n", "g">> })
                THEN Val(nested.url)
                ELSE Val(tag.src)
         IN  IF nested.raised # ""
             THEN [outcome |-> "raised", raised |-> nested.raised, image |-> None, caption |-> None]
             ELSE IF Get(image_url) \in RequestExceptions
             THEN [outcome |-> "probe", raised |-> "", image |-> None, caption |-> None]
             ELSE [outcome |-> "ok", raised |-> "", image |-> Some(image_url), caption |-> tag.alt]

-----------------------------------------------------------------------------
(* Texts (descriptions) are tuples of tokens: plain text, a markup tag, a  *)
(* character entity, or an image marker "[image n: caption][n]".           *)

Text(s) == [kind |-> "text", n |-> 0, cap |-> << >>, s |-> s]

Markup(s) == [kind |-> "markup", n |-> 0, cap |-> << >>, s |-> s]

Entity(s) == [kind |-> "entity", n |-> 0, cap |-> << >>, s |-> s]

\* f"[image {counter}: {caption}][{counter}]"
Marker(counter, caption) == [kind |-> "marker", n |-> counter, cap |-> caption, s |-> ""]

RECURSIVE SelectTokens(_, _)
SelectTokens(text, kinds) ==
    IF text = << >> THEN << >>
    ELSE (IF Head(text).kind \in kinds THEN << Head(text) >> ELSE << >>)
            \o SelectTokens(Tail(text), kinds)

\* re.sub("<.*?>", "", text)
StripTags(text) == SelectTokens(text, {"text", "entity", "marker"})

\* BeautifulSoup(text, "lxml").get_text(): tags dropped, entities decoded
GetText(text) ==
    LET kept == StripTags(text)
    IN  [i \in 1..Len(kept) |->
            IF kept[i].kind = "entity" THEN Text("'") ELSE kept[i]]

-----------------------------------------------------------------------------
(* Web pages (the parsed soup) and feed items used as inputs               *)

ImgTag(src, alt, parent, srcset) ==
    [src |-> src, alt |-> alt, parent |-> parent, srcset |-> srcset]

Caption == <<"c", "a", "p">>

\* an alt text with markup in it
HrefCaption == <<"h", "r", "e", "f">>

HrefPng == <<"/", "h", ".", "p", "n", "g">>

HrefHtml == <<"/", "x", ".", "h", "t", "m", "l">>

Soup(imgs, hrefs, meta, title) ==
    [imgs |-> imgs, hrefs |-> hrefs, meta |-> meta, lead |-> None, og |-> None,
     title |-> title, h2 |-> None]

NoTitle == [tag |-> FALSE, string |-> None]

Title(s) == [tag |-> TRUE, string |-> s]

\* the document behind each article URL
WebPage(url) ==
    IF url = PageA
    THEN Soup(<< ImgTag(Some(ImgA), Some(Caption), "div", None),
                 ImgTag(Some(ImgA), None, "p", None) >>,
              << Some(HrefHtml), Some(HrefPng) >>,
              None, Title(Some(<< Text("page A") >>)))
    ELSE Soup(<< ImgTag(Some(ImgA), None, "div", None) >>,
              << >>,
              Some(<< Text("about B") >>), Title(Some(<< Text("page B") >>)))

PubDate(valid, day, time, tz) == [valid |-> valid, day |-> day, time |-> time, tz |-> tz]

Item(title, pubDate, link, description) ==
    [title |-> title, pubDate |-> pubDate, link |-> link, description |-> description]

NoDescriptionTag == [tag |-> FALSE, string |-> None]

DescriptionTag(s) == [tag |-> TRUE, string |-> s]

InlineText == << Markup("<p>"), Text("inline"), Entity("&#39;"), Markup("</p>") >>

\* the feed items the feeds are built from
Items ==
    { Item("A", PubDate(TRUE, 1, 10, "+0300"), Some(PageA), DescriptionTag(Some(InlineText))),
      Item("B", PubDate(TRUE, 1, 20, "GMT"), Some(PageB), NoDescriptionTag),
      Item("C", PubDate(TRUE, 2, 10, "GMT"), None, DescriptionTag(Some(InlineText))),
      Item("D", PubDate(TRUE, 2, 20, "+0300"), None, NoDescriptionTag),
      Item("E", PubDate(TRUE, 1, 10, "GMT"), Some(PageDown), DescriptionTag(Some(InlineText))),
      Item("F", PubDate(FALSE, 0, 0, ""), None, DescriptionTag(Some(InlineText))) }

\* dateutil_parser.parse(text, ignoretz=True)
DateParse(pubDate) ==
    IF pubDate.valid
    THEN [raised |-> "", day |-> pubDate.day, time |-> pubDate.time]
    ELSE [raised |-> "ParserError", day |-> 0, time |-> 0]

-----------------------------------------------------------------------------
(* WebParser.form_description and NewsObject.form_news                     *)

\* "if description:" for the optional text a description former returned
Truthy(o) == ~IsNone(o) /\ Val(o) # << >>

\* description_meta_tag under suppress_exceptions: the content attribute of
\* the meta description, None when the element or the attribute is missing
description_meta_tag(soup) == soup.meta

\* description_tag_p_class_lead under suppress_exceptions
description_tag_p_class_lead(soup) == soup.lead

\* description_property_og under suppress_exceptions:
\* re.sub("<.*?>", "", content)
description_property_og(soup) ==
    IF IsNone(soup.og) THEN None ELSE Some(StripTags(Val(soup.og)))

\* description_title: soup.title.string under suppress_exceptions
description_title(soup) == IF soup.title.tag THEN soup.title.string ELSE None

\* description_header_two under suppress_exceptions
description_header_two(soup) == soup.h2

\* the list description_formers with the title asked before the meta tag
DescriptionFormersTitleFirst(soup) ==
    << [former |-> "description_title", result |-> description_title(soup)],
       [former |-> "description_meta_tag", result |-> description_meta_tag(soup)],
       [former |-> "description_tag_p_class_lead", result |-> description_tag_p_class_lead(soup)],
       [former |-> "description_property_og", result |-> description_property_og(soup)],
       [former |-> "description_header_two", result |-> description_header_two(soup)] >>

\* the list description_formers, each former with what it returns for the page
DescriptionFormers(soup) ==
    << [former |-> "description_meta_tag", result |-> description_meta_tag(soup)],
       [former |-> "description_tag_p_class_lead", result |-> description_tag_p_class_lead(soup)],
       [former |-> "description_property_og", result |-> description_property_og(soup)],
       [former |-> "description_title", result |-> description_title(soup)],
       [former |-> "description_header_two", result |-> description_header_two(soup)] >>

\* "for description_former in description_formers": the formers called so
\* far, and the description that ended the loop (None when none did)
RECURSIVE DescriptionFormersLoop(_, _)
DescriptionFormersLoop(formers, consulted) ==
    IF formers = << >> THEN [value |-> None, consulted |-> consulted]
    ELSE IF Truthy(Head(formers).result)
    THEN [value |-> Head(formers).result,
          consulted |-> Append(consulted, Head(formers).former)]
    ELSE DescriptionFormersLoop(Tail(formers), Append(consulted, Head(formers).former))

\* WebParser.form_description: the exception raised, or the returned value;
\* consulted: the description formers it called
form_description(soup) ==
    LET loop == DescriptionFormersLoop(DescriptionFormers(soup), << >>)
    IN  IF ~IsNone(loop.value)
        THEN [raised |-> "", value |-> loop.value, consulted |-> loop.consulted]
        ELSE IF ~soup.title.tag
        THEN [raised |-> "AttributeError", value |-> None, consulted |-> loop.consulted]
        ELSE [raised |-> "", value |-> soup.title.string, consulted |-> loop.consulted]

FeedTitle == "Feed"

NoLinkSentinel == << "Rss news doesn't provide link" >>

NoCaptionSentinel == << "no description" >>

\* NewsObject.date
NewsDate(item) ==
    LET d == DateParse(item.pubDate)
    IN  [raised |-> d.raised, value |-> << d.day, d.time >>]

\* _form_header taking the link of every item from its <link> tag
FormHeaderLinkAlways(item, container) ==
    [raised |-> NewsDate(item).raised,
     feed   |-> FeedTitle \o "\n",
     title  |-> item.title,
     date   |-> NewsDate(item).value,
     link   |-> (IF ~IsNone(item.link) THEN Val(item.link) ELSE << >>) \o <<"\n">>]

\* NewsObject._form_header: the header fields, or the exception of self.date
FormHeader(item, container) ==
    [raised |-> NewsDate(item).raised,
     feed   |-> FeedTitle \o "\n",
     title  |-> item.title,
     date   |-> NewsDate(item).value,
     link   |-> (IF ~IsNone(container) THEN Val(item.link) ELSE NoLinkSentinel) \o <<"\n">>]

\* NewsObject._form_description, the loop over self._img_data_container
RECURSIVE DescriptionMarkers(_, _)
DescriptionMarkers(images, counter) ==
    IF images = << >> THEN << >>
    ELSE LET caption == Head(images).caption
         IN  << Marker(counter, IF Truthy(caption) THEN Val(caption) ELSE NoCaptionSentinel) >>
                \o DescriptionMarkers(Tail(images), counter + 1)

\* _form_description with the page description computed before the feed's
\* description is looked at
FormDescriptionEager(item, container, soup) ==
    LET markers == IF ~IsNone(container) THEN DescriptionMarkers(Val(container), 2) ELSE << >>
        inline  == item.description.tag /\ ~IsNone(item.description.string)
        page    == form_description(soup)
    IN  IF IsNone(container)
        THEN [raised |-> "AttributeError", value |-> << >>, fallback |-> FALSE]
        ELSE IF page.raised # ""
        THEN [raised |-> page.raised, value |-> << >>, fallback |-> TRUE]
        ELSE IF inline
        THEN [raised |-> "",
              value  |-> GetText(markers \o StripTags(Val(item.description.string))
                                    \o << Text("\n") >>),
              fallback |-> TRUE]
        ELSE IF IsNone(page.value)
        THEN [raised |-> "TypeError", value |-> << >>, fallback |-> TRUE]
        ELSE [raised |-> "",
              value  |-> GetText(markers \o Val(page.value) \o << Text("\n") >>),
              fallback |-> TRUE]

\* NewsObject._form_description: the exception raised, or the description;
\* fallback: self._parser.form_description() was called
FormDescription(item, container, soup) ==
    LET markers == IF ~IsNone(container) THEN DescriptionMarkers(Val(container), 2) ELSE << >>
        inline  == item.description.tag /\ ~IsNone(item.description.string)
        page    == form_description(soup)
    IN  IF inline
        THEN [raised |-> "",
              value  |-> GetText(markers \o StripTags(Val(item.description.string))
                                    \o << Text("\n") >>),
              fallback |-> FALSE]
        ELSE IF IsNone(container)            \* self._parser was never assigned
        THEN [raised |-> "AttributeError", value |-> << >>, fallback |-> FALSE]
        ELSE IF page.raised # ""
        THEN [raised |-> page.raised, value |-> << >>, fallback |-> TRUE]
        ELSE IF IsNone(page.value)           \* None + "\n"
        THEN [raised |-> "TypeError", value |-> << >>, fallback |-> TRUE]
        ELSE [raised |-> "",
              value  |-> GetText(markers \o Val(page.value) \o << Text("\n") >>),
              fallback |-> TRUE]

\* NewsObject._form_links, the loop over self._img_data_container
RECURSIVE ImageLinks(_, _, _)
ImageLinks(images, counter, links) ==
    IF images = << >> THEN links
    ELSE ImageLinks(Tail(images), counter + 1,
                    [k \in DOMAIN links \cup {counter} |->
                        IF k = counter THEN Head(images).image \o << " (image)" >>
                        ELSE links[k]])

\* _form_links with the image counter starting at the key of the article link
FormLinksFromOne(item, container) ==
    IF ~IsNone(container)
    THEN ImageLinks(Val(container), 1, [k \in {1} |-> Val(item.link) \o << " (link)" >>])
    ELSE [k \in {1} |-> NoLinkSentinel]

\* NewsObject._form_links: the dict, key n standing for "[n]"
FormLinks(item, container) ==
    IF ~IsNone(container)
    THEN ImageLinks(Val(container), 2, [k \in {1} |-> Val(item.link) \o << " (link)" >>])
    ELSE [k \in {1} |-> NoLinkSentinel]

\* NewsObject.form_news: the exception raised, or self.news_container
form_news_object(item, container, soup) ==
    LET header == FormHeader(item, container)
        descr  == FormDescription(item, container, soup)
    IN  [raised |-> IF header.raised # "" THEN header.raised ELSE descr.raised,
         news_container |->
            [feed |-> header.feed, title |-> header.title, date |-> header.date,
             link |-> header.link, description |-> descr.value,
             links |-> FormLinks(item, container)]]

-----------------------------------------------------------------------------
(* ParserNewsFormer: selection of the feed items                           *)

\* list[:k]
Take(list, k) == SubSeq(list, 1, IF k < Len(list) THEN k ELSE Len(list))

\* _form_news_limit with the comparison of the elif branch inverted
FormNewsLimitInverted(limit, list_of_news) ==
    IF IsNone(limit) THEN Len(list_of_news)
    ELSE IF Val(limit) < Len(list_of_news) THEN Len(list_of_news)
    ELSE Val(limit)

\* ParserNewsFormer._form_news_limit
FormNewsLimit(limit, list_of_news) ==
    IF IsNone(limit) THEN Len(list_of_news)
    ELSE IF Val(limit) > Len(list_of_news) THEN Len(list_of_news)
    ELSE Val(limit)

RECURSIVE WithDate(_, _)
WithDate(list_of_all_news, day) ==
    IF list_of_all_news = << >> THEN << >>
    ELSE (IF DateParse(Head(list_of_all_news).pubDate).day = day
          THEN << Head(list_of_all_news) >> ELSE << >>)
            \o WithDate(Tail(list_of_all_news), day)

\* _form_news_list_by_date without the check for an empty selection
FormNewsListByDateUnchecked(day, limit, list_of_all_news) ==
    LET suitable == WithDate(list_of_all_news, day)
    IN  IF \E i \in 1..Len(list_of_all_news) : DateParse(list_of_all_news[i].pubDate).raised # ""
        THEN [raised |-> "ParserError", list |-> << >>]
        ELSE [raised |-> "", list |-> Take(suitable, FormNewsLimit(limit, suitable))]

\* ParserNewsFormer._form_news_list_by_date: the exception raised, or the list
FormNewsListByDate(day, limit, list_of_all_news) ==
    LET suitable == WithDate(list_of_all_news, day)
    IN  IF \E i \in 1..Len(list_of_all_news) : DateParse(list_of_all_news[i].pubDate).raised # ""
        THEN [raised |-> "ParserError", list |-> << >>]
        ELSE IF suitable = << >>
        THEN [raised |-> "error: no news for the specified date", list |-> << >>]
        ELSE [raised |-> "", list |-> Take(suitable, FormNewsLimit(limit, suitable))]

\* ParserNewsFormer._form_news_list
FormNewsList(date, limit, list_of_all_news) ==
    IF IsNone(date)
    THEN [raised |-> "", list |-> Take(list_of_all_news, FormNewsLimit(limit, list_of_all_news))]
    ELSE FormNewsListByDate(Val(date), limit, list_of_all_news)

-----------------------------------------------------------------------------
(* One enrichment task: NewsObject.__init__ run by a pool thread, i.e.     *)
(* WebParser.__init__ and WebParser.form_img_data.  A step contains at     *)
(* most one access to the class attributes of ImageDuplicateChecker.       *)
(* Fields of a task: pc, flag (the identity of its WebParser), link, soup, *)
(* idx (the img tag the loop is at), images (images_container), container  *)
(* (NewsObject._img_data_container once done), raised (the exception that  *)
(* ended it), and as history log (tag and outcome of every get_img_data    *)
(* call) and fetched (requests.get was called for the page).               *)

EmptySoup == Soup(<< >>, << >>, None, NoTitle)

NewTask(flag, link) ==
    [pc |-> "init", flag |-> flag, link |-> link, soup |-> EmptySoup, idx |-> 1,
     images |-> << >>, container |-> None, log |-> << >>, raised |-> "",
     fetched |-> FALSE]

Logged(t, tag, outcome) == Append(t.log, [tag |-> tag, outcome |-> outcome])

\* the image hyperlinks collected from the last a tag to the first
RECURSIVE CollectAHrefTagImagesBackwards(_)
CollectAHrefTagImagesBackwards(hrefs) ==
    IF hrefs = << >> THEN << >>
    ELSE CollectAHrefTagImagesBackwards(Tail(hrefs))
            \o (IF ~IsNone(Head(hrefs)) /\ Val(Head(hrefs)) # << >>
                    /\ EndsWithAny(Val(Head(hrefs)),
                                   { <<".", "j", "p", "g">>, <<".", "p", "n", "g">> })
                 THEN << [image |-> Val(Head(hrefs)), caption |-> Some(<< >>)] >>
                 ELSE << >>)

\* the image hyperlinks collected only when the image checkers pass the target
RECURSIVE CollectAHrefTagImagesChecked(_)
CollectAHrefTagImagesChecked(hrefs) ==
    IF hrefs = << >> THEN << >>
    ELSE (IF ~IsNone(Head(hrefs)) /\ Val(Head(hrefs)) # << >>
             /\ EndsWithAny(Val(Head(hrefs)),
                            { <<".", "j", "p", "g">>, <<".", "p", "n", "g">> })
             /\ ChecksAfterDuplicate(ImgTag(Head(hrefs), None, "a", None)) = "pass"
          THEN << [image |-> Val(Head(hrefs)), caption |-> Some(<< >>)] >>
          ELSE << >>)
            \o CollectAHrefTagImagesChecked(Tail(hrefs))

\* WebParser._collect_a_href_tag_images
RECURSIVE CollectAHrefTagImages(_)
CollectAHrefTagImages(hrefs) ==
    IF hrefs = << >> THEN << >>
    ELSE (IF ~IsNone(Head(hrefs)) /\ Val(Head(hrefs)) # << >>
             /\ EndsWithAny(Val(Head(hrefs)),
                            { <<".", "j", "p", "g">>, <<".", "p", "n", "g">> })
          THEN << [image |-> Val(Head(hrefs)), caption |-> Some(<< >>)] >>
          ELSE << >>)
            \o CollectAHrefTagImages(Tail(hrefs))

\* NewsObject._collect_img_data up to the parser's construction:
\* the link of the item, then WebParser.__init__ (requests.get of the page)
TaskStart(i) ==
    /\ i \in DOMAIN task
    /\ task[i].pc = "init"
    /\ LET t == task[i] IN
        IF IsNone(t.link)
        THEN /\ task' = [task EXCEPT ![i].pc = "done"]
             /\ finished' = Append(finished, t.flag)
        ELSE IF Get(Val(t.link)) \in RequestExceptions
        THEN /\ task' = [task EXCEPT ![i].pc = "failed", ![i].raised = Get(Val(t.link)),
                                      ![i].fetched = TRUE]
             /\ finished' = Append(finished, t.flag)
        ELSE /\ task' = [task EXCEPT ![i].pc = "scan", ![i].soup = WebPage(Val(t.link)),
                                      ![i].fetched = TRUE]
             /\ finished' = finished
    /\ UNCHANGED << feed, news_limit, news_date, mainpc, news_list, pos, news_storage,
                    error, dupInstance, duplicates, scans, previous, run >>

\* WebParser._collect_img_tag_images, the head of the loop: the next img tag,
\* html_image_checker up to the first read of ImageDuplicateChecker.instance;
\* after the last tag _collect_a_href_tag_images and the return of form_img_data
ScanTag(i) ==
    /\ i \in DOMAIN task
    /\ task[i].pc = "scan"
    /\ LET t == task[i] IN
        IF t.idx > Len(t.soup.imgs)
        THEN /\ task' = [task EXCEPT
                    ![i].pc = "done",
                    ![i].container = Some(t.images \o CollectAHrefTagImages(t.soup.hrefs))]
             /\ finished' = Append(finished, t.flag)
        ELSE LET tag == t.soup.imgs[t.idx] IN
             /\ finished' = finished
             /\ IF ChecksBeforeDuplicate(tag) # "pass"
                THEN task' = [task EXCEPT ![i].idx = t.idx + 1,
                                          ![i].log = Logged(t, tag, ChecksBeforeDuplicate(tag))]
                ELSE IF IsNone(dupInstance) \/ Val(dupInstance) # t.flag
                THEN task' = [task EXCEPT ![i].pc = "set_instance"]
                ELSE task' = [task EXCEPT ![i].pc = "member"]
    /\ UNCHANGED << feed, news_limit, news_date, mainpc, news_list, pos, news_storage,
                    error, dupInstance, duplicates, scans, previous, run >>

\* ImageDuplicateChecker.check: ImageDuplicateChecker.instance = instance_flag
DupSetInstance(i) ==
    /\ i \in DOMAIN task
    /\ task[i].pc = "set_instance"
    /\ dupInstance' = Some(task[i].flag)
    /\ task' = [task EXCEPT ![i].pc = "set_duplicates"]
    /\ UNCHANGED << feed, news_limit, news_date, mainpc, news_list, pos, news_storage,
                    error, duplicates, finished, scans, previous, run >>

\* ImageDuplicateChecker.check: ImageDuplicateChecker.duplicates = set()
DupSetDuplicates(i) ==
    /\ i \in DOMAIN task
    /\ task[i].pc = "set_duplicates"
    /\ duplicates' = {}
    /\ task' = [task EXCEPT ![i].pc = "member"]
    /\ UNCHANGED << feed, news_limit, news_date, mainpc, news_list, pos, news_storage,
                    error, dupInstance, finished, scans, previous, run >>

\* ImageDuplicateChecker.check: if image in ImageDuplicateChecker.duplicates
DupMember(i) ==
    /\ i \in DOMAIN task
    /\ task[i].pc = "member"
    /\ LET t == task[i]
           tag == t.soup.imgs[t.idx]
       IN  IF Val(tag.src) \in duplicates
           THEN task' = [task EXCEPT ![i].pc = "scan", ![i].idx = t.idx + 1,
                                     ![i].log = Logged(t, tag, "ImageDuplicateChecker")]
           ELSE task' = [task EXCEPT ![i].pc = "add"]
    /\ UNCHANGED << feed, news_limit, news_date, mainpc, news_list, pos, news_storage,
                    error, dupInstance, duplicates, finished, scans, previous, run >>

\* a check that forgets to add the image
DuplicatesAddNothing(dups, image) == dups

\* the set ImageDuplicateChecker.duplicates.add(image) leaves behind
DuplicatesAdd(dups, image) == dups \cup {image}

\* ImageDuplicateChecker.check: ImageDuplicateChecker.duplicates.add(image),
\* then the rest of html_image_checker, html_caption_checker and get_img_data
DupAdd(i) ==
    /\ i \in DOMAIN task
    /\ task[i].pc = "add"
    /\ duplicates' = DuplicatesAdd(duplicates, Val(task[i].soup.imgs[task[i].idx].src))
    /\ LET t == task[i]
           tag == t.soup.imgs[t.idx]
           tail == get_img_data_tail(tag, Val(t.link))
       IN  IF ChecksAfterDuplicate(tag) # "pass"
           THEN /\ task' = [task EXCEPT ![i].pc = "scan", ![i].idx = t.idx + 1,
                                        ![i].log = Logged(t, tag, ChecksAfterDuplicate(tag))]
                /\ finished' = finished
           ELSE IF tail.outcome = "raised"
           THEN /\ task' = [task EXCEPT ![i].pc = "failed", ![i].raised = tail.raised,
                                        ![i].log = Logged(t, tag, "raised")]
                /\ finished' = Append(finished, t.flag)
           ELSE /\ task' = [task EXCEPT
                        ![i].pc = "scan", ![i].idx = t.idx + 1,
                        ![i].log = Logged(t, tag, tail.outcome),
                        ![i].images = IF tail.outcome = "ok"
                                      THEN Append(t.images, [image |-> Val(tail.image),
                                                             caption |-> tail.caption])
                                      ELSE t.images]
                /\ finished' = finished
    /\ UNCHANGED << feed, news_limit, news_date, mainpc, news_list, pos, news_storage,
                    error, dupInstance, scans, previous, run >>

-----------------------------------------------------------------------------
(* ParserNewsFormer.form_news, the thread that calls it                    *)

Done(t) == t.pc \in {"done", "failed"}

\* news_list = self._form_news_list(self._news_date)
SelectNews ==
    /\ mainpc = "start"
    /\ LET r == FormNewsList(news_date, news_limit, feed) IN
        IF r.raised # ""
        THEN /\ error' = Some(r.raised)
             /\ mainpc' = "raised"
             /\ news_list' = news_list
        ELSE /\ error' = error
             /\ mainpc' = IF r.list = << >> THEN "collect" ELSE "submit"
             /\ news_list' = r.list
    /\ UNCHANGED << feed, news_limit, news_date, task, pos, news_storage,
                    dupInstance, duplicates, finished, scans, previous, run >>

\* executor.submit(NewsObject, self._title, certain_rss_news, WebParser, "lxml")
Submit ==
    /\ mainpc = "submit"
    /\ Len(task) < Len(news_list)
    /\ task' = Append(task, NewTask(Len(task) + 1, news_list[Len(task) + 1].link))
    /\ mainpc' = IF Len(task) + 1 = Len(news_list) THEN "collect" ELSE "submit"
    /\ UNCHANGED << feed, news_limit, news_date, news_list, pos, news_storage, error,
                    dupInstance, duplicates, finished, scans, previous, run >>

\* the future that finished next (as_completed order)
NextFutureAsCompleted(collected) ==
    IF Len(finished) > collected THEN finished[collected + 1] ELSE collected + 1

\* the future whose result the loop of form_news takes next
NextFuture(collected) == collected + 1

\* one round of "for executor_result in executor_pool": executor_result.result(),
\* news_object.form_news(), news_storage.append(news_object.news_container)
Collect ==
    /\ mainpc = "collect"
    /\ pos < Len(news_list)
    /\ LET i == NextFuture(pos)
           obj == form_news_object(news_list[i], task[i].container, task[i].soup)
       IN  /\ Done(task[i])
           /\ IF task[i].pc = "failed"
              THEN /\ error' = Some(task[i].raised)
                   /\ mainpc' = "shutdown"
                   /\ UNCHANGED << pos, news_storage >>
              ELSE IF obj.raised # ""
              THEN /\ error' = Some(obj.raised)
                   /\ mainpc' = "shutdown"
                   /\ UNCHANGED << pos, news_storage >>
              ELSE /\ news_storage' = Append(news_storage, obj.news_container)
                   /\ pos' = pos + 1
                   /\ UNCHANGED << error, mainpc >>
    /\ UNCHANGED << feed, news_limit, news_date, news_list, task,
                    dupInstance, duplicates, finished, scans, previous, run >>

\* an exit of the with block that does not wait for the running tasks
ExecutorExitNoWait ==
    /\ \/ mainpc = "collect" /\ pos = Len(news_list)
       \/ mainpc = "shutdown"
    /\ mainpc' = IF IsNone(error) THEN "returned" ELSE "raised"
    /\ UNCHANGED << feed, news_limit, news_date, news_list, task, pos, news_storage, error,
                    dupInstance, duplicates, finished, scans, previous, run >>

\* the end of "with ThreadPoolExecutor() as executor": shutdown(wait=True),
\* then form_news returns news_storage or the pending exception propagates
ExecutorExit ==
    /\ \/ mainpc = "collect" /\ pos = Len(news_list)
       \/ mainpc = "shutdown"
    /\ \A i \in DOMAIN task : Done(task[i])
    /\ mainpc' = IF IsNone(error) THEN "returned" ELSE "raised"
    /\ UNCHANGED << feed, news_limit, news_date, news_list, task, pos, news_storage, error,
                    dupInstance, duplicates, finished, scans, previous, run >>

-----------------------------------------------------------------------------
(* NewsStorage: the storage file and the JSON document kept in it.  A      *)
(* Python dict is a function from its keys; a JSON document is a tree of   *)
(* object, array and string nodes.  A date "%Y-%m-%d %H:%M:%S" is the pair *)
(* << day, time >>, its "%Y%m%d" form is the day.                          *)

JString(s) == [json |-> "string", string |-> s]

JArray(items) == [json |-> "array", items |-> items]

JMember(key, value) == [key |-> key, value |-> value]

\* a JSON object: its members in document order
JObject(members) == [json |-> "object", members |-> members]

\* json.dump of a news_container: the keys in insertion order, the keys of
\* the links dict ("[1]", "[2]", ..) likewise
JsonDumpNews(news) ==
    JObject(<< JMember("feed", JString(news.feed)),
               JMember("title", JString(news.title)),
               JMember("date", JString(news.date)),
               JMember("link", JString(news.link)),
               JMember("description", JString(news.description)),
               JMember("links",
                       JObject([n \in 1..Cardinality(DOMAIN news.links) |->
                                    JMember(n, JString(news.links[n]))])) >>)

\* json.load: the value of a key of an object (the last member wins)
JsonValue(object, key) ==
    LET at == { i \in 1..Len(object.members) : object.members[i].key = key }
    IN  object.members[CHOOSE i \in at : \A j \in at : j <= i].value

\* json.load of the object of a news_container
JsonLoadNews(object) ==
    LET links == JsonValue(object, "links")
    IN  [feed |-> JsonValue(object, "feed").string,
         title |-> JsonValue(object, "title").string,
         date |-> JsonValue(object, "date").string,
         link |-> JsonValue(object, "link").string,
         description |-> JsonValue(object, "description").string,
         links |-> [n \in { links.members[i].key : i \in 1..Len(links.members) } |->
                        JsonValue(links, n).string]]

\* json.dump(news_to_save, file, indent=4) for a list of {date: [news, ..]}
JsonDump(groups) ==
    JArray([g \in 1..Len(groups) |->
        LET key == CHOOSE k \in DOMAIN groups[g] : TRUE
        IN  JObject(<< JMember(key,
                JArray([i \in 1..Len(groups[g][key]) |-> JsonDumpNews(groups[g][key][i])])) >>)])

\* json.load(file): the list of dicts
JsonLoad(document) ==
    [g \in 1..Len(document.items) |->
        LET object == document.items[g]
        IN  [key \in { object.members[i].key : i \in 1..Len(object.members) } |->
                LET array == JsonValue(object, key)
                IN  [i \in 1..Len(array.items) |-> JsonLoadNews(array.items[i])]]]

\* order of the "date" strings of two news
DateLeq(a, b) == a[1] < b[1] \/ (a[1] = b[1] /\ a[2] <= b[2])

\* sorted(news_to_safe, key=lambda news: news["date"]) (a stable sort)
RECURSIVE SortedByDate(_)
SortedByDate(list) ==
    IF list = << >> THEN << >>
    ELSE LET rest == SortedByDate(SubSeq(list, 1, Len(list) - 1))
             x == list[Len(list)]
             k == Cardinality({ i \in 1..Len(rest) : DateLeq(rest[i].date, x.date) })
         IN  SubSeq(rest, 1, k) \o << x >> \o SubSeq(rest, k + 1, Len(rest))

\* NewsStorage._get_reformatted_date
GetReformattedDate(date) == date[1]

\* itertools.groupby over the reformatted dates: one dict per run of equal keys
RECURSIVE GroupBy(_)
GroupBy(list) ==
    IF list = << >> THEN << >>
    ELSE LET key == GetReformattedDate(list[1].date)
             n == CHOOSE n \in 1..Len(list) :
                    /\ \A i \in 1..n : GetReformattedDate(list[i].date) = key
                    /\ n = Len(list) \/ GetReformattedDate(list[n + 1].date) # key
         IN  << [k \in {key} |-> SubSeq(list, 1, n)] >>
                \o GroupBy(SubSeq(list, n + 1, Len(list)))

\* NewsStorage._group_news_by_date
GroupNewsByDate(news_to_safe) == GroupBy(SortedByDate(news_to_safe))

\* NewsStorage.save_news_to_file: the content of the file it leaves
SaveNewsToFile(news_to_save) == Some(JsonDump(GroupNewsByDate(news_to_save)))

\* _get_all_news keeping the news of the last dict only
GetAllNewsOfLast(data_from_file) ==
    IF data_from_file = << >> THEN << >>
    ELSE LET news == data_from_file[Len(data_from_file)]
         IN  news[CHOOSE k \in DOMAIN news : TRUE]

\* NewsStorage._get_all_news
RECURSIVE GetAllNews(_)
GetAllNews(data_from_file) ==
    IF data_from_file = << >> THEN << >>
    ELSE LET news == Head(data_from_file)
         IN  news[CHOOSE k \in DOMAIN news : TRUE] \o GetAllNews(Tail(data_from_file))

\* _get_news_by_date returning an empty list for a date without news
GetNewsByDateOrEmpty(data_from_file, date) == [raised |-> "", news |-> << >>]

\* NewsStorage._get_news_by_date: the exception raised, or the news
GetNewsByDate(data_from_file, date) ==
    LET hits == { g \in 1..Len(data_from_file) :
                    IF date \in DOMAIN data_from_file[g]
                    THEN data_from_file[g][date] # << >> ELSE FALSE }
    IN  IF hits = {}
        THEN [raised |-> "error: no news for the specified date", news |-> << >>]
        ELSE [raised |-> "",
              news |-> data_from_file[CHOOSE g \in hits : \A h \in hits : g <= h][date]]

\* get_news_from_file returning the whole selection whatever the limit
GetNewsFromFileUncut(file, limit, date) ==
    IF IsNone(file)
    THEN [raised |-> "error: news storage file doesn't exist, run program with the 'source' argument first", news |-> << >>, limit |-> limit]
    ELSE LET selected == IF ~IsNone(date)
                         THEN GetNewsByDate(JsonLoad(Val(file)), Val(date))
                         ELSE [raised |-> "", news |-> GetAllNews(JsonLoad(Val(file)))]
         IN  [raised |-> selected.raised, news |-> selected.news, limit |-> limit]

\* NewsStorage.get_news_from_file: the exception raised, or the news, and
\* the value of self._news_limit it leaves
GetNewsFromFile(file, limit, date) ==
    IF IsNone(file)
    THEN [raised |-> "error: news storage file doesn't exist, run program with the 'source' argument first", news |-> << >>, limit |-> limit]
    ELSE LET selected == IF ~IsNone(date)
                         THEN GetNewsByDate(JsonLoad(Val(file)), Val(date))
                         ELSE [raised |-> "", news |-> GetAllNews(JsonLoad(Val(file)))]
             lowered == IF IsNone(limit) THEN limit
                        ELSE IF Val(limit) # 0 /\ Len(selected.news) < Val(limit)
                        THEN Some(Len(selected.news)) ELSE limit
         IN  IF selected.raised # ""
             THEN [raised |-> selected.raised, news |-> << >>, limit |-> limit]
             ELSE [raised |-> "",
                   news |-> IF IsNone(lowered) THEN selected.news
                            ELSE Take(selected.news, Val(lowered)),
                   limit |-> lowered]

-----------------------------------------------------------------------------
(* main(), ParserManager and NewsStorage: the fields of run.                *)
(*   pc                position in main / start_processing                  *)
(*   source            what the url argument leads to                       *)
(*   json_flag         args.json                                            *)
(*   paths             formats_and_paths_for_conversion, in dict order      *)
(*   formats_and_paths ParserManager._formats_and_paths                     *)
(*   file              content of stored_news.txt (None: no such file)      *)
(*   storage_limit     NewsStorage._news_limit                              *)
(*   data_format       ParserNewsHandler.data_format                        *)
(*   news_from_file    the list get_news_from_file returned                 *)
(*   handled           history: the calls of Printer and FileConverter      *)
(*   logged            history: the messages passed to LOGGER.warning       *)
(*   exit_status       exit status of the process (None while it runs)      *)
(*   file_at_start     history: the content of the file when main started   *)
(*   saved, call, calls  history of the calls made on a NewsStorage object  *)

NoCall ==
    [op |-> "none", date |-> None, file_before |-> None, limit_before |-> None,
     raised |-> "", result |-> << >>]

NoRun ==
    [pc |-> "none", source |-> "none", json_flag |-> FALSE, paths |-> << >>,
     formats_and_paths |-> None, file |-> None, storage_limit |-> None,
     data_format |-> "LIST", news_from_file |-> None, handled |-> << >>,
     logged |-> << >>, exit_status |-> None, file_at_start |-> None,
     saved |-> << >>, call |-> NoCall, calls |-> 0]

\* str.upper() of the format names in use
Upper(format) ==
    CASE format = "to_html" -> "TO_HTML"
      [] format = "to_pdf" -> "TO_PDF"
      [] OTHER -> format

\* ParserNewsHandler.register_data_format_to_process: the data_format it leaves
RegisterDataFormatToProcess(data_format, format_to_process) ==
    IF ~IsNone(format_to_process) THEN Upper(Val(format_to_process)) ELSE data_format

\* json.dumps(news_container, indent=4)
JsonDumps(news_container) == [json |-> "text", indent |-> 4, document |-> JsonDumpNews(news_container)]

\* serialize_news working on the list it was given instead of a copy
SerializeNewsInPlace(data_format, news_to_serialize) ==
    LET serialized == IF data_format = "JSON"
                      THEN [i \in 1..Len(news_to_serialize) |-> JsonDumps(news_to_serialize[i])]
                      ELSE news_to_serialize
    IN  [result |-> serialized, argument |-> serialized]

\* ParserNewsHandler.serialize_news: the list returned, and the list the
\* caller passed as it is after the call
SerializeNews(data_format, news_to_serialize) ==
    LET copy == news_to_serialize
    IN  [result |-> IF data_format = "JSON"
                    THEN [i \in 1..Len(copy) |-> JsonDumps(copy[i])]
                    ELSE copy,
         argument |-> news_to_serialize]

\* Printer._register_formats, FileConverter._register_formats
HandlerFormats(news_handler) ==
    IF news_handler = "Printer"
    THEN [format \in {"LIST", "JSON"} |->
            IF format = "LIST" THEN "human_readable_printer" ELSE "json_printer"]
    ELSE [format \in {"TO_HTML", "TO_PDF"} |->
            IF format = "TO_HTML" THEN "HTMLConverter" ELSE "create_pdf"]

\* ParserNewsHandler.process_news: the exception raised, or the call made
ProcessNews(news_handler, data_format, news_to_process) ==
    IF data_format \in DOMAIN HandlerFormats(news_handler)
    THEN [raised |-> "",
          call |-> << [news_handler |-> news_handler,
                       handler_method |-> HandlerFormats(news_handler)[data_format],
                       object_to_handle |-> news_to_process] >>]
    ELSE [raised |-> "TypeError", call |-> << >>]

\* _convert_news_to_files without the test "path is not None"
RECURSIVE ConvertNewsToAllFiles(_, _, _)
ConvertNewsToAllFiles(formats_and_paths, data_format, news_to_convert) ==
    IF formats_and_paths = << >>
    THEN [raised |-> "", calls |-> << >>, data_format |-> data_format]
    ELSE LET item == Head(formats_and_paths)
             registered == RegisterDataFormatToProcess(data_format, Some(item.format))
             processed == ProcessNews("FileConverter", registered,
                                      [path |-> item.path, news |-> news_to_convert])
             rest == ConvertNewsToAllFiles(Tail(formats_and_paths), registered, news_to_convert)
         IN  [raised |-> rest.raised, calls |-> processed.call \o rest.calls,
              data_format |-> rest.data_format]

\* ParserManager._convert_news_to_files: the exception raised, the calls of
\* FileConverter made before it, and the data_format left
RECURSIVE ConvertNewsToFiles(_, _, _)
ConvertNewsToFiles(formats_and_paths, data_format, news_to_convert) ==
    IF formats_and_paths = << >>
    THEN [raised |-> "", calls |-> << >>, data_format |-> data_format]
    ELSE LET item == Head(formats_and_paths)
             registered == IF ~IsNone(item.path)
                           THEN RegisterDataFormatToProcess(data_format, Some(item.format))
                           ELSE data_format
             processed == IF ~IsNone(item.path)
                          THEN ProcessNews("FileConverter", registered,
                                           [path |-> item.path, news |-> news_to_convert])
                          ELSE [raised |-> "", call |-> << >>]
             rest == ConvertNewsToFiles(Tail(formats_and_paths), registered, news_to_convert)
         IN  IF processed.raised # ""
             THEN [raised |-> processed.raised, calls |-> << >>, data_format |-> registered]
             ELSE [raised |-> rest.raised, calls |-> processed.call \o rest.calls,
                   data_format |-> rest.data_format]

-----------------------------------------------------------------------------
(* The program: one call of form_news on a feed                            *)

MaxItems == 2

MaxLimit == 2

MaxDay == 3

Feeds == UNION { [1..n -> Items] : n \in 0..MaxItems }

Init ==
    /\ feed \in Feeds
    /\ news_limit \in {None} \cup { Some(k) : k \in 1..MaxLimit }
    /\ news_date \in {None} \cup { Some(d) : d \in 1..MaxDay }
    /\ mainpc = "start"
    /\ news_list = << >>
    /\ task = << >>
    /\ pos = 0
    /\ news_storage = << >>
    /\ error = None
    /\ dupInstance = None
    /\ duplicates = {}
    /\ finished = << >>
    /\ scans = 0
    /\ previous = {}
    /\ run = NoRun

Next ==
    \/ SelectNews
    \/ Submit
    \/ Collect
    \/ ExecutorExit
    \/ \E i \in DOMAIN task : TaskStart(i)
    \/ \E i \in DOMAIN task : ScanTag(i)
    \/ \E i \in DOMAIN task : DupSetInstance(i)
    \/ \E i \in DOMAIN task : DupSetDuplicates(i)
    \/ \E i \in DOMAIN task : DupMember(i)
    \/ \E i \in DOMAIN task : DupAdd(i)

Spec == Init /\ [][Next]_vars

-----------------------------------------------------------------------------
(* A test driver in the manner of tests/test_web_parser.py: WebParser      *)
(* instances created one after the other in one process, each scanning a   *)
(* page with form_img_data before the next one is created.                 *)

MaxTags == 2

MaxScans == 2

\* the img tags the scanned pages are built from
TagCatalog ==
    { ImgTag(Some(ImgA), Some(Caption), "div", None),
      ImgTag(Some(ImgA), None, "a", None),
      ImgTag(None, Some(Caption), "div", None),
      ImgTag(Some(ImgGif), None, "div", None),
      ImgTag(Some(ImgColon), None, "div", None),
      ImgTag(Some(ImgBbc), None, "div", None),
      ImgTag(Some(ImgBbc), None, "div", Some(ImgBbc)),
      ImgTag(Some(ImgBbcLine), None, "div", Some(ImgBbc)),
      ImgTag(Some(ImgStats), None, "div", None),
      ImgTag(Some(ImgIcon), None, "div", None) }

ScanSoups ==
    { Soup(imgs, << Some(HrefPng) >>, None, Title(Some(<< Text("page") >>))) :
        imgs \in UNION { [1..n -> TagCatalog] : n \in 0..MaxTags } }

\* the sources the duplicate checker rejected in a finished scan
DuplicateRejected(log) ==
    { Val(log[j].tag.src) : j \in { k \in 1..Len(log) : log[k].outcome = "ImageDuplicateChecker" } }

\* parser = WebParser(url, "lxml") on a page that is served, followed by
\* parser.form_img_data(), once the preceding scan has returned
StartScan ==
    /\ mainpc = "test"
    /\ scans < MaxScans
    /\ IF task = << >> THEN TRUE ELSE Done(task[1])
    /\ \E soup \in ScanSoups :
        task' = << [NewTask(scans + 1, Some(PageA)) EXCEPT
                        !.pc = "scan", !.soup = soup, !.fetched = TRUE] >>
    /\ scans' = scans + 1
    /\ previous' = IF task = << >> THEN {} ELSE DuplicateRejected(task[1].log)
    /\ UNCHANGED << feed, news_limit, news_date, mainpc, news_list, pos, news_storage,
                    error, dupInstance, duplicates, finished, run >>

InitScan ==
    /\ feed = << >>
    /\ news_limit = None
    /\ news_date = None
    /\ mainpc = "test"
    /\ news_list = << >>
    /\ task = << >>
    /\ pos = 0
    /\ news_storage = << >>
    /\ error = None
    /\ dupInstance = None
    /\ duplicates = {}
    /\ finished = << >>
    /\ scans = 0
    /\ previous = {}
    /\ run = NoRun

NextScan ==
    \/ StartScan
    \/ \E i \in DOMAIN task : ScanTag(i)
    \/ \E i \in DOMAIN task : DupSetInstance(i)
    \/ \E i \in DOMAIN task : DupSetDuplicates(i)
    \/ \E i \in DOMAIN task : DupMember(i)
    \/ \E i \in DOMAIN task : DupAdd(i)

SpecScan == InitScan /\ [][NextScan]_vars

-----------------------------------------------------------------------------
(* The same test driver on pages whose img tags differ in their alt text.  *)

\* img tags with a plain caption, with markup in the caption, without caption
CaptionCatalog ==
    { ImgTag(Some(ImgB), Some(Caption), "div", None),
      ImgTag(Some(ImgB), Some(HrefCaption), "div", None),
      ImgTag(Some(ImgA), None, "div", None) }

CaptionSoups ==
    { Soup(imgs, << >>, None, Title(Some(<< Text("page") >>))) :
        imgs \in UNION { [1..n -> CaptionCatalog] : n \in 0..MaxTags } }

\* parser = WebParser(url, "lxml") on one of these pages, followed by
\* parser.form_img_data(), once the preceding scan has returned
StartCaptionScan ==
    /\ mainpc = "test"
    /\ scans < MaxScans
    /\ IF task = << >> THEN TRUE ELSE Done(task[1])
    /\ \E soup \in CaptionSoups :
        task' = << [NewTask(scans + 1, Some(PageA)) EXCEPT
                        !.pc = "scan", !.soup = soup, !.fetched = TRUE] >>
    /\ scans' = scans + 1
    /\ previous' = IF task = << >> THEN {} ELSE DuplicateRejected(task[1].log)
    /\ UNCHANGED << feed, news_limit, news_date, mainpc, news_list, pos, news_storage,
                    error, dupInstance, duplicates, finished, run >>

NextCaptionScan ==
    \/ StartCaptionScan
    \/ \E i \in DOMAIN task : ScanTag(i)
    \/ \E i \in DOMAIN task : DupSetInstance(i)
    \/ \E i \in DOMAIN task : DupSetDuplicates(i)
    \/ \E i \in DOMAIN task : DupMember(i)
    \/ \E i \in DOMAIN task : DupAdd(i)

SpecCaptionScan == InitScan /\ [][NextCaptionScan]_vars

-----------------------------------------------------------------------------
(* WebParser.form_img_data called once on a page: pages that differ in     *)
(* their URL, in their img tags and in their hyperlinks.                   *)

MaxHrefs == 2

\* a page whose host answers unknown paths with 404, one whose host answers
\* every path, and one whose host closes the connection on other paths
PageUrls == { PageA, PageSoft, PageReset }

\* an img tag with an absolute source, one with a root-relative source and
\* one whose source is on a host that refuses the connection
PageImgCatalog ==
    { ImgTag(Some(ImgA), Some(Caption), "div", None),
      ImgTag(Some(ImgRel), None, "div", None),
      ImgTag(Some(ImgGone), None, "div", None) }

\* link.get("href") of the a tags: image targets, among them the source of
\* an img tag and a source the image checkers reject, another target, and
\* an a tag without href
PageHrefCatalog == { Some(HrefPng), Some(HrefHtml), Some(ImgA), Some(ImgBbc), None }

PageSoups ==
    { Soup(imgs, hrefs, None, Title(Some(<< Text("page") >>))) :
        imgs \in UNION { [1..n -> PageImgCatalog] : n \in 0..MaxTags },
        hrefs \in UNION { [1..n -> PageHrefCatalog] : n \in 0..MaxHrefs } }

\* parser = WebParser(url, "lxml") has downloaded the page;
\* parser.form_img_data() is about to run
InitPageScan ==
    /\ feed = << >>
    /\ news_limit = None
    /\ news_date = None
    /\ mainpc = "test"
    /\ news_list = << >>
    /\ \E url \in PageUrls, soup \in PageSoups :
        task = << [NewTask(1, Some(url)) EXCEPT
                        !.pc = "scan", !.soup = soup, !.fetched = TRUE] >>
    /\ pos = 0
    /\ news_storage = << >>
    /\ error = None
    /\ dupInstance = None
    /\ duplicates = {}
    /\ finished = << >>
    /\ scans = 1
    /\ previous = {}
    /\ run = NoRun

NextPageScan ==
    \/ \E i \in DOMAIN task : ScanTag(i)
    \/ \E i \in DOMAIN task : DupSetInstance(i)
    \/ \E i \in DOMAIN task : DupSetDuplicates(i)
    \/ \E i \in DOMAIN task : DupMember(i)
    \/ \E i \in DOMAIN task : DupAdd(i)

SpecPageScan == InitPageScan /\ [][NextPageScan]_vars

-----------------------------------------------------------------------------
(* A test driver in the manner of tests/test_news_object.py: one NewsObject *)
(* built for a feed item whose page has been scanned, on which form_news is *)
(* called.  The pages differ in what the five description formers find.     *)

\* a page given by what its meta description, lead paragraph, Open-Graph
\* description, title and first h2 hold (None: element or attribute missing)
DescriptionPage(meta, lead, og, title, h2) ==
    [Soup(<< >>, << >>, meta, title) EXCEPT !.lead = lead, !.og = og, !.h2 = h2]

DescriptionPages ==
    { DescriptionPage(meta, lead, og, title, h2) :
        meta \in { None, Some(<< >>), Some(<< Text("meta") >>) },
        lead \in { None, Some(<< >>), Some(<< Text("lead") >>) },
        og \in { None, Some(<< Markup("<b>") >>), Some(<< Markup("<b>"), Text("og") >>) },
        title \in { NoTitle, Title(None), Title(Some(<< Text("title") >>)) },
        h2 \in { None, Some(<< Text("h2") >>) } }

\* feed items without description tag, with an empty one, with text and
\* markup in it, and with markup only; each with and without link
DescriptionItems ==
    { Item("A", PubDate(TRUE, 1, 10, "GMT"), link, description) :
        link \in { Some(PageA), None },
        description \in { NoDescriptionTag, DescriptionTag(None),
                          DescriptionTag(Some(InlineText)),
                          DescriptionTag(Some(<< Markup("<p>") >>)) } }

\* what form_img_data returned for the page of the item
ImgDataContainers ==
    { << >>, << [image |-> ImgA, caption |-> Some(Caption)] >> }

\* news_object.form_news()
ObjectFormNews ==
    /\ mainpc = "object"
    /\ LET obj == form_news_object(news_list[1], task[1].container, task[1].soup) IN
        IF obj.raised # ""
        THEN /\ error' = Some(obj.raised)
             /\ news_storage' = news_storage
        ELSE /\ error' = error
             /\ news_storage' = << obj.news_container >>
    /\ mainpc' = "formed"
    /\ UNCHANGED << feed, news_limit, news_date, news_list, task, pos,
                    dupInstance, duplicates, finished, scans, previous, run >>

\* NewsObject(title, certain_rss_news, WebParser, "lxml") has been built
InitObject ==
    /\ \E item \in DescriptionItems :
        /\ feed = << item >>
        /\ news_list = << item >>
        /\ IF IsNone(item.link)
           THEN task = << [NewTask(1, None) EXCEPT !.pc = "done"] >>
           ELSE \E page \in DescriptionPages, images \in ImgDataContainers :
                    task = << [NewTask(1, item.link) EXCEPT
                                    !.pc = "done", !.soup = page, !.fetched = TRUE,
                                    !.images = images, !.container = Some(images)] >>
    /\ news_limit = None
    /\ news_date = None
    /\ mainpc = "object"
    /\ pos = 0
    /\ news_storage = << >>
    /\ error = None
    /\ dupInstance = None
    /\ duplicates = {}
    /\ finished = << 1 >>
    /\ scans = 0
    /\ previous = {}
    /\ run = NoRun

NextObject == ObjectFormNews

SpecObject == InitObject /\ [][NextObject]_vars

-----------------------------------------------------------------------------
(* A test driver in the manner of tests/test_news_storage.py: one          *)
(* NewsStorage object on which save_news_to_file and get_news_from_file    *)
(* are called one after the other.                                         *)

MaxRecords == 2

MaxCalls == 3

ItemTitled(title) == CHOOSE item \in Items : item.title = title

\* news_containers as NewsObject.form_news builds them: one with an image
\* marker, one described from its page, one without link
ArticleRecords ==
    { form_news_object(ItemTitled("A"),
                       Some(<< [image |-> ImgA, caption |-> Some(Caption)] >>),
                       EmptySoup).news_container,
      form_news_object(ItemTitled("B"), Some(<< >>), WebPage(PageB)).news_container,
      form_news_object(ItemTitled("C"), None, EmptySoup).news_container }

RecordLists == UNION { [1..n -> ArticleRecords] : n \in 0..MaxRecords }

\* news_storage.save_news_to_file(news_to_save)
StorageSave ==
    /\ run.pc = "storage"
    /\ run.calls < MaxCalls
    /\ \E news_to_save \in RecordLists :
        run' = [run EXCEPT
                    !.file = SaveNewsToFile(news_to_save),
                    !.saved = news_to_save,
                    !.calls = run.calls + 1,
                    !.call = [op |-> "save", date |-> None, file_before |-> run.file,
                              limit_before |-> run.storage_limit, raised |-> "",
                              result |-> << >>]]
    /\ UNCHANGED << feed, news_limit, news_date, mainpc, news_list, task, pos, news_storage,
                    error, dupInstance, duplicates, finished, scans, previous >>

\* news_storage.get_news_from_file(news_date)
StorageGet ==
    /\ run.pc = "storage"
    /\ run.calls < MaxCalls
    /\ \E date \in {None} \cup { Some(d) : d \in 1..MaxDay } :
        LET r == GetNewsFromFile(run.file, run.storage_limit, date) IN
        run' = [run EXCEPT
                    !.storage_limit = r.limit,
                    !.calls = run.calls + 1,
                    !.call = [op |-> "get", date |-> date, file_before |-> run.file,
                              limit_before |-> run.storage_limit, raised |-> r.raised,
                              result |-> r.news]]
    /\ UNCHANGED << feed, news_limit, news_date, mainpc, news_list, task, pos, news_storage,
                    error, dupInstance, duplicates, finished, scans, previous >>

\* NewsStorage(news_limit) on a directory without a storage file
InitStorage ==
    /\ feed = << >>
    /\ news_limit = None
    /\ news_date = None
    /\ mainpc = "storage"
    /\ news_list = << >>
    /\ task = << >>
    /\ pos = 0
    /\ news_storage = << >>
    /\ error = None
    /\ dupInstance = None
    /\ duplicates = {}
    /\ finished = << >>
    /\ scans = 0
    /\ previous = {}
    /\ \E limit \in {None} \cup { Some(k) : k \in 1..MaxLimit } :
        run = [NoRun EXCEPT !.pc = "storage", !.storage_limit = limit]

NextStorage ==
    \/ StorageSave
    \/ StorageGet

SpecStorage == InitStorage /\ [][NextStorage]_vars

-----------------------------------------------------------------------------
(* The program as run from the command line: main(), which checks the      *)
(* arguments, builds a ParserManager and calls start_processing.           *)

MaxRunItems == 1

RunFeeds == UNION { [1..n -> Items] : n \in 0..MaxRunItems }

FormNewsVars ==
    << feed, news_limit, news_date, news_list, task, pos, news_storage, error,
       dupInstance, duplicates, finished, scans, previous >>

\* main up to parser.start_processing(): ArgsChecker(...).check(), and the
\* construction of ParserManager with its NewsStorage
CheckArgs ==
    /\ run.pc = "main"
    /\ IF run.source = "none" /\ IsNone(news_date)
       THEN /\ run' = [run EXCEPT !.pc = "return",
                          !.logged = Append(run.logged, "error: the following arguments are required")]
            /\ mainpc' = mainpc
       ELSE IF run.source = "unreachable"
       THEN /\ run' = [run EXCEPT !.pc = "return",
                          !.logged = Append(run.logged, "error: can't get access to the website")]
            /\ mainpc' = mainpc
       ELSE IF run.source = "not_rss"
       THEN /\ run' = [run EXCEPT !.pc = "return",
                          !.logged = Append(run.logged, "error: invalid source")]
            /\ mainpc' = mainpc
       ELSE /\ run' = [run EXCEPT
                          !.pc = IF run.source = "ok" THEN "form" ELSE "get",
                          !.formats_and_paths =
                              IF \E i \in 1..Len(run.paths) : ~IsNone(run.paths[i].path)
                              THEN Some(run.paths) ELSE None,
                          !.storage_limit = news_limit]
            /\ mainpc' = IF run.source = "ok" THEN "start" ELSE mainpc
    /\ UNCHANGED FormNewsVars

\* a save that keeps the records the file held
SaveNewsKeepingFile ==
    /\ run.pc = "form"
    /\ mainpc = "returned"
    /\ run' = [run EXCEPT
                !.pc = "get",
                !.file = IF IsNone(run.file) THEN SaveNewsToFile(news_storage)
                         ELSE SaveNewsToFile(GetAllNews(JsonLoad(Val(run.file))) \o news_storage),
                !.saved = news_storage]
    /\ UNCHANGED << mainpc >>
    /\ UNCHANGED FormNewsVars

\* start_processing: self.news_storage.save_news_to_file(self._form_news())
\* once form_news has returned
SaveNews ==
    /\ run.pc = "form"
    /\ mainpc = "returned"
    /\ run' = [run EXCEPT !.pc = "get", !.file = SaveNewsToFile(news_storage),
                          !.saved = news_storage]
    /\ UNCHANGED << mainpc >>
    /\ UNCHANGED FormNewsVars

\* a start_processing that goes on to the storage after form_news raised
FormNewsRaisedGoOn ==
    /\ run.pc = "form"
    /\ mainpc = "raised"
    /\ run' = [run EXCEPT !.pc = "get", !.logged = Append(run.logged, Val(error))]
    /\ UNCHANGED << mainpc >>
    /\ UNCHANGED FormNewsVars

\* catch_exceptions: form_news raised, start_processing logs it and returns None
FormNewsRaised ==
    /\ run.pc = "form"
    /\ mainpc = "raised"
    /\ run' = [run EXCEPT !.pc = "return", !.logged = Append(run.logged, Val(error))]
    /\ UNCHANGED << mainpc >>
    /\ UNCHANGED FormNewsVars

\* start_processing: news_from_file = get_news_from_file(news_date=self._date),
\* an exception ending start_processing in catch_exceptions
GetNews ==
    /\ run.pc = "get"
    /\ LET r == GetNewsFromFile(run.file, run.storage_limit, news_date) IN
        run' = [run EXCEPT
                    !.storage_limit = r.limit,
                    !.call = [op |-> "get", date |-> news_date, file_before |-> run.file,
                              limit_before |-> run.storage_limit, raised |-> r.raised,
                              result |-> r.news],
                    !.news_from_file = IF r.raised = "" THEN Some(r.news) ELSE None,
                    !.logged = IF r.raised = "" THEN run.logged ELSE Append(run.logged, r.raised),
                    !.pc = IF r.raised # "" THEN "return"
                           ELSE IF IsNone(run.formats_and_paths) \/ run.json_flag THEN "print"
                           ELSE "convert"]
    /\ UNCHANGED << mainpc >>
    /\ UNCHANGED FormNewsVars

\* ParserManager._serialize_and_print_news
SerializeAndPrintNews ==
    /\ run.pc = "print"
    /\ LET registered == RegisterDataFormatToProcess(
                            run.data_format, IF run.json_flag THEN Some("JSON") ELSE None)
           serialized == SerializeNews(registered, Val(run.news_from_file))
           processed == ProcessNews("Printer", registered,
                                    [news |-> serialized.result, colorized_mode |-> FALSE])
       IN  run' = [run EXCEPT
                    !.data_format = registered,
                    !.news_from_file = Some(serialized.argument),
                    !.handled = run.handled \o processed.call,
                    !.logged = IF processed.raised = "" THEN run.logged
                               ELSE Append(run.logged, processed.raised),
                    !.pc = IF processed.raised # "" THEN "return"
                           ELSE IF IsNone(run.formats_and_paths) THEN "return"
                           ELSE "convert"]
    /\ UNCHANGED << mainpc >>
    /\ UNCHANGED FormNewsVars

\* start_processing: self._convert_news_to_files(news_to_convert=news_from_file)
ConvertNews ==
    /\ run.pc = "convert"
    /\ LET converted == ConvertNewsToFiles(Val(run.formats_and_paths), run.data_format,
                                           Val(run.news_from_file))
       IN  run' = [run EXCEPT
                    !.data_format = converted.data_format,
                    !.handled = run.handled \o converted.calls,
                    !.logged = IF converted.raised = "" THEN run.logged
                               ELSE Append(run.logged, converted.raised),
                    !.pc = "return"]
    /\ UNCHANGED << mainpc >>
    /\ UNCHANGED FormNewsVars

\* main returns and the interpreter exits
MainReturn ==
    /\ run.pc = "return"
    /\ run' = [run EXCEPT !.pc = "exited", !.exit_status = Some(0)]
    /\ UNCHANGED << mainpc >>
    /\ UNCHANGED FormNewsVars

\* the content a run before this one may have left in the storage file
EarlierFile ==
    SaveNewsToFile(<< form_news_object(ItemTitled("C"), None, EmptySoup).news_container,
                      form_news_object(ItemTitled("B"), Some(<< >>), WebPage(PageB)).news_container,
                      form_news_object(ItemTitled("A"), Some(<< >>), EmptySoup).news_container >>)

\* {"to_html": args.to_html, "to_pdf": args.to_pdf}
PathArguments ==
    { << [format |-> "to_html", path |-> html], [format |-> "to_pdf", path |-> pdf] >> :
        html \in {None, Some("out.html")}, pdf \in {None, Some("out.pdf")} }

InitRun ==
    /\ \E source \in {"none", "ok", "unreachable", "not_rss"} :
       \E json_flag \in BOOLEAN, paths \in PathArguments, file \in {None, EarlierFile} :
        /\ run = [NoRun EXCEPT !.pc = "main", !.source = source, !.json_flag = json_flag,
                               !.paths = paths, !.file = file, !.file_at_start = file]
        /\ feed \in IF source = "ok" THEN RunFeeds ELSE { << >> }
    /\ news_limit \in {None} \cup { Some(k) : k \in 1..MaxLimit }
    /\ news_date \in {None} \cup { Some(d) : d \in 1..MaxDay }
    /\ mainpc = "idle"
    /\ news_list = << >>
    /\ task = << >>
    /\ pos = 0
    /\ news_storage = << >>
    /\ error = None
    /\ dupInstance = None
    /\ duplicates = {}
    /\ finished = << >>
    /\ scans = 0
    /\ previous = {}

NextRun ==
    \/ CheckArgs
    \/ SelectNews
    \/ Submit
    \/ Collect
    \/ ExecutorExit
    \/ \E i \in DOMAIN task : TaskStart(i)
    \/ \E i \in DOMAIN task : ScanTag(i)
    \/ \E i \in DOMAIN task : DupSetInstance(i)
    \/ \E i \in DOMAIN task : DupSetDuplicates(i)
    \/ \E i \in DOMAIN task : DupMember(i)
    \/ \E i \in DOMAIN task : DupAdd(i)
    \/ SaveNews
    \/ FormNewsRaised
    \/ GetNews
    \/ SerializeAndPrintNews
    \/ ConvertNews
    \/ MainReturn

SpecRun == InitRun /\ [][NextRun]_vars

-----------------------------------------------------------------------------
(* Claims                                                                  *)

\* the record NewsObject builds for the i-th selected item from its own task
RecordOf(i) == form_news_object(news_list[i], task[i].container, task[i].soup).news_container

\* C1: the list form_news builds has at position i the record built from the
\* i-th selected item, whatever the order in which the tasks finished.
C1_OrderPreserved ==
    \A i \in 1..Len(news_storage) :
        /\ news_storage[i] = RecordOf(i)
        /\ news_storage[i].title = news_list[i].title
        /\ news_storage[i].date = << news_list[i].pubDate.day, news_list[i].pubDate.time >>

\* C1 witness: form_news returned two different records in selection order
\* although the task of the second item finished first.
C1_Witness ==
    /\ mainpc = "returned"
    /\ Len(news_storage) >= 2
    /\ finished[1] = 2
    /\ news_storage[1].title # news_storage[2].title
    /\ ~IsNone(task[1].container) /\ ~IsNone(task[2].container)

\* the positions of the feed items whose publication day is the target day
\* (all positions when no target date is given)
PassingDateFilter ==
    { i \in 1..Len(feed) :
        IsNone(news_date) \/ (feed[i].pubDate.valid /\ feed[i].pubDate.day = Val(news_date)) }

\* the number of items the claim selects: min(limit, m), or m without a limit
SelectionSize ==
    LET m == Cardinality(PassingDateFilter)
    IN  IF IsNone(news_limit) THEN m
        ELSE IF Val(news_limit) < m THEN Val(news_limit) ELSE m

\* the k-th smallest position of a set of positions
RECURSIVE KthPosition(_, _)
KthPosition(positions, k) ==
    LET least == CHOOSE i \in positions : \A j \in positions : i <= j
    IN  IF k = 1 THEN least ELSE KthPosition(positions \ {least}, k - 1)

\* C3: when form_news returns, the selected items are the first min(limit, m)
\* of the m items that pass the date filter, in feed order, and the output
\* holds exactly one record per selected item.
C3_SelectionAndCount ==
    mainpc = "returned" =>
        /\ Len(news_list) = SelectionSize
        /\ \A k \in 1..Len(news_list) : news_list[k] = feed[KthPosition(PassingDateFilter, k)]
        /\ Len(news_storage) = Len(news_list)
        /\ \A k \in 1..Len(news_list) : news_storage[k].title = news_list[k].title

\* C3 witness: form_news returned after the limit cut a date-filtered
\* selection short.
C3_Witness ==
    /\ mainpc = "returned"
    /\ ~IsNone(news_date)
    /\ ~IsNone(news_limit)
    /\ Val(news_limit) < Cardinality(PassingDateFilter)
    /\ Len(news_storage) = Val(news_limit)

\* C3 witness of the date filter: form_news returned with an item dropped by
\* the date filter.
C3_WitnessDate ==
    /\ mainpc = "returned"
    /\ ~IsNone(news_date)
    /\ Cardinality(PassingDateFilter) < Len(feed)
    /\ Len(news_storage) >= 1

NoNewsError == "error: no news for the specified date"

\* a target date is given and no feed item has that publication day
NoItemOnTargetDate ==
    /\ ~IsNone(news_date)
    /\ \A i \in 1..Len(feed) :
        ~(feed[i].pubDate.valid /\ feed[i].pubDate.day = Val(news_date))

AllDatesParse == \A i \in 1..Len(feed) : feed[i].pubDate.valid

\* C5 as stated: with a target date that no feed item has, form_news raises
\* the 'no news for the specified date' error before any task is submitted
\* and returns no records.
C5_NoNewsErrorAsStated ==
    (NoItemOnTargetDate /\ mainpc # "start") =>
        /\ mainpc = "raised"
        /\ error = Some(NoNewsError)
        /\ task = << >>
        /\ news_storage = << >>

\* C5 amended: with a target date that no feed item has, form_news raises
\* before any task is submitted and returns no records; the error is the
\* 'no news for the specified date' error when every publication date of the
\* feed can be parsed, and the date parser's error otherwise.
C5_NoNewsError ==
    (NoItemOnTargetDate /\ mainpc # "start") =>
        /\ mainpc = "raised"
        /\ error = Some(IF AllDatesParse THEN NoNewsError ELSE "ParserError")
        /\ task = << >>
        /\ news_storage = << >>

\* C5 witness: a feed of parseable items, none on the target date, and
\* form_news has raised the error.
C5_Witness ==
    /\ NoItemOnTargetDate
    /\ AllDatesParse
    /\ Len(feed) >= 2
    /\ mainpc = "raised"
    /\ error = Some(NoNewsError)

\* the image markers of a description, in order
MarkersOf(description) == SelectTokens(description, {"marker"})

\* C6: a record built from an item with a link and K accepted images has in
\* its description exactly the markers [2]..[K+1] in discovery order, in its
\* links exactly the keys [1]..[K+1] with [1] the article link, and marker
\* [n] carries the caption of the image that links entry [n] points to.
C6_NumberingSync ==
    \A i \in 1..Len(news_storage) :
        ~IsNone(news_list[i].link) =>
            LET images  == Val(task[i].container)
                K       == Len(images)
                markers == MarkersOf(news_storage[i].description)
                links   == news_storage[i].links
            IN  /\ Len(markers) = K
                /\ DOMAIN links = 1..(K + 1)
                /\ links[1] = Val(news_list[i].link) \o << " (link)" >>
                /\ \A j \in 1..K :
                    /\ markers[j].n = j + 1
                    /\ markers[j].cap =
                        (IF Truthy(images[j].caption) THEN Val(images[j].caption)
                         ELSE NoCaptionSentinel)
                    /\ links[j + 1] = images[j].image \o << " (image)" >>

\* C6 witness: a returned record with two images, one with a caption and one
\* without.
C6_Witness ==
    /\ mainpc = "returned"
    /\ \E i \in 1..Len(news_storage) :
        /\ ~IsNone(news_list[i].link)
        /\ Len(Val(task[i].container)) = 2
        /\ Truthy(Val(task[i].container)[1].caption)
        /\ ~Truthy(Val(task[i].container)[2].caption)

\* C7: for a feed item without a link no page is fetched, and its record has
\* the no-link sentinel as link, exactly one (placeholder) entry in links and
\* no image marker in the description.
C7_NoLinkPlaceholder ==
    \A i \in DOMAIN task :
        IsNone(news_list[i].link) =>
            /\ ~task[i].fetched
            /\ IsNone(task[i].container)
            /\ i <= Len(news_storage) =>
                /\ news_storage[i].link = NoLinkSentinel \o << "\n" >>
                /\ DOMAIN news_storage[i].links = {1}
                /\ news_storage[i].links[1] = NoLinkSentinel
                /\ MarkersOf(news_storage[i].description) = << >>

\* C7 witness: the record of an item without a link was returned.
C7_Witness ==
    /\ mainpc = "returned"
    /\ \E i \in 1..Len(news_storage) :
        /\ IsNone(news_list[i].link)
        /\ news_storage[i].link = NoLinkSentinel \o << "\n" >>

\* the checkers of html_image_checker
ImageCheckers ==
    { "NoImageExistenceChecker", "ImageExtensionChecker", "NewsPageLogoChecker",
      "ImageDuplicateChecker", "ImageDoubleColon", "ImageBBCComNotSrc",
      "StatsResearchLinks", "Icons" }

\* html_image_checker returned True for the logged tag
ImageAccepted(entry) == entry.outcome \notin ImageCheckers

\* the outcomes of the img tags of a page scanned alone, with a duplicate
\* detector that starts empty and is used by this scan only
RECURSIVE OutcomesAlone(_, _, _)
OutcomesAlone(tags, seen, page_url) ==
    IF tags = << >> THEN << >>
    ELSE LET tag == Head(tags)
             outcome ==
                IF ChecksBeforeDuplicate(tag) # "pass" THEN ChecksBeforeDuplicate(tag)
                ELSE IF Val(tag.src) \in seen THEN "ImageDuplicateChecker"
                ELSE IF ChecksAfterDuplicate(tag) # "pass" THEN ChecksAfterDuplicate(tag)
                ELSE get_img_data_tail(tag, page_url).outcome
             seenNow ==
                IF ChecksBeforeDuplicate(tag) # "pass" THEN seen ELSE seen \cup {Val(tag.src)}
         IN  << outcome >> \o OutcomesAlone(Tail(tags), seenNow, page_url)

\* the sources of the img tags the scan of a task has taken up so far
SourcesTakenUp(t) ==
    { Val(t.soup.imgs[k].src) :
        k \in { n \in 1..Len(t.soup.imgs) : n <= t.idx /\ ~IsNone(t.soup.imgs[n].src) } }

\* C2: under every interleaving of the page scans of form_news the duplicate
\* detector a scan uses holds only sources seen by that scan: the outcome of
\* every img tag of a page is the one the page has when scanned alone, and a
\* source occurring in several img tags of a page is accepted at most once.
C2_ScanSessionIsolation ==
    /\ \A i \in DOMAIN task :
        dupInstance = Some(task[i].flag) => duplicates \subseteq SourcesTakenUp(task[i])
    /\ \A i \in DOMAIN task :
        LET t == task[i] IN
        /\ t.pc = "done" /\ ~IsNone(t.container) =>
            [k \in 1..Len(t.log) |-> t.log[k].outcome]
                = OutcomesAlone(t.soup.imgs, {}, Val(t.link))
        /\ \A j, k \in 1..Len(t.log) :
            (j < k /\ t.log[j].tag.src = t.log[k].tag.src)
                => ~(ImageAccepted(t.log[j]) /\ ImageAccepted(t.log[k]))

\* a page fetch of task i failed with a network error
PageFetchFailed(i) ==
    /\ task[i].pc = "failed"
    /\ task[i].fetched
    /\ task[i].soup = EmptySoup
    /\ task[i].raised = "ConnectionError"

\* C4: when the fetch of the page of a selected item fails with a network
\* error, form_news does not raise; it returns one record per selected item
\* and the record of the failing item has no image entry and the inline
\* description (or the sentinel) as description.
C4_PageFetchFailureTolerated ==
    \A i \in DOMAIN task :
        PageFetchFailed(i) =>
            /\ ~(mainpc \in {"shutdown", "raised"} /\ pos + 1 = i)
            /\ mainpc = "returned" =>
                /\ Len(news_storage) = Len(news_list)
                /\ DOMAIN news_storage[i].links \subseteq {1}
                /\ MarkersOf(news_storage[i].description) = << >>

\* the item has neither a <link> nor a <description> tag
NoLinkNoDescription(item) == IsNone(item.link) /\ ~item.description.tag

\* C8: for a feed item with neither a link nor an inline description the
\* enrichment completes without error and the description of its record is
\* the 'no description' sentinel.
C8_NoDescriptionSentinel ==
    \A i \in DOMAIN task :
        (NoLinkNoDescription(news_list[i]) /\ news_list[i].pubDate.valid) =>
            /\ ~(mainpc \in {"shutdown", "raised"} /\ pos + 1 = i)
            /\ i <= Len(news_storage) =>
                news_storage[i].description = << Text("no description") >>

\* the log of the scan that is running or has run last
ScanLog == IF task = << >> THEN << >> ELSE task[1].log

\* the tag passes every checker of html_image_checker other than the
\* duplicate checker
PassesOtherRules(tag) ==
    ChecksBeforeDuplicate(tag) = "pass" /\ ChecksAfterDuplicate(tag) = "pass"

\* entry j is the first img candidate of the scan with its source
FirstWithSource(log, j) == \A h \in 1..(j - 1) : log[h].tag.src # log[j].tag.src

\* C9: within one scan, of two img candidates with the same source that pass
\* every other rule, the first candidate with that source is accepted and the
\* later one is rejected as duplicate; in the next scan, started afterwards,
\* a source the previous scan rejected as duplicate is accepted again.
C9_DuplicateWithinSessionOnly ==
    /\ \A j, k \in 1..Len(ScanLog) :
        (/\ j < k
         /\ ScanLog[j].tag.src = ScanLog[k].tag.src
         /\ PassesOtherRules(ScanLog[j].tag)
         /\ PassesOtherRules(ScanLog[k].tag)
         /\ FirstWithSource(ScanLog, j))
            => /\ ImageAccepted(ScanLog[j])
               /\ ScanLog[k].outcome = "ImageDuplicateChecker"
    /\ \A j \in 1..Len(ScanLog) :
        (/\ PassesOtherRules(ScanLog[j].tag)
         /\ Val(ScanLog[j].tag.src) \in previous
         /\ FirstWithSource(ScanLog, j))
            => ImageAccepted(ScanLog[j])

\* C9 witness: a second scan accepted a source that the first scan rejected
\* as duplicate, and rejected its second occurrence.
C9_Witness ==
    /\ scans = 2
    /\ Len(ScanLog) = 2
    /\ PassesOtherRules(ScanLog[1].tag)
    /\ Val(ScanLog[1].tag.src) \in previous
    /\ ImageAccepted(ScanLog[1])
    /\ ScanLog[2].tag.src = ScanLog[1].tag.src
    /\ ScanLog[2].outcome = "ImageDuplicateChecker"

\* entry k of the log reached the duplicate checker
ReachedDuplicateChecker(entry) ==
    entry.outcome \notin
        {"NoImageExistenceChecker", "ImageExtensionChecker", "NewsPageLogoChecker"}

\* the eight rejection conditions of the claim for entry k of a scan's log
RejectionCondition(log, k) ==
    LET tag == log[k].tag
        src == Val(tag.src)
    IN  \/ IsNone(tag.src)
        \/ src = << >>
        \/ EndsWith(src, <<"g", "i", "f">>) \/ EndsWith(src, <<"s", "v", "g">>)
        \/ tag.parent = "a"
        \/ \E h \in 1..(k - 1) : log[h].tag.src = tag.src /\ ReachedDuplicateChecker(log[h])
        \/ Contains(src, <<":", ":">>)
        \/ /\ Contains(src, <<"b", "b", "c">>)
           /\ IsNone(tag.srcset) \/ Contains(src, <<"l", "i", "n", "e">>)
        \/ \E site \in statistics_collection_sites : Contains(src, site)
        \/ IconsPatternSearch(src)

\* C10: html_image_checker returns False for a candidate exactly when one of
\* the eight rejection conditions holds and True otherwise, and a tag without
\* a source is rejected, not an error.
C10_ImageCheckerRules ==
    \A k \in 1..Len(ScanLog) :
        /\ ~ImageAccepted(ScanLog[k]) <=> RejectionCondition(ScanLog, k)
        /\ IsNone(ScanLog[k].tag.src) => ScanLog[k].outcome = "NoImageExistenceChecker"

\* C10 witness: a scan rejected a tag without a source and accepted a
\* candidate that none of the conditions rejects.
C10_Witness ==
    /\ Len(ScanLog) = 2
    /\ IsNone(ScanLog[1].tag.src)
    /\ ScanLog[1].outcome = "NoImageExistenceChecker"
    /\ ~RejectionCondition(ScanLog, 2)
    /\ ScanLog[2].outcome = "ok"

\* form_news ended with one of the hard failures: the target date matches
\* no item, or the publication date of an item cannot be parsed
HardFailureFormingNews ==
    /\ run.pc # "none"
    /\ mainpc = "raised"
    /\ error \in { Some("error: no news for the specified date"), Some("ParserError") }

\* C11: after a hard failure while forming news, start_processing leaves the
\* storage file as it was before the run and hands no article to a printer
\* or converter.
C11_NoPartialOutput ==
    HardFailureFormingNews =>
        /\ run.file = run.file_at_start
        /\ run.handled = << >>

\* C11 witness: a run on a feed with an unparseable publication date ended
\* while the storage file held the news of an earlier run.
C11_Witness ==
    /\ HardFailureFormingNews
    /\ error = Some("ParserError")
    /\ ~IsNone(run.file_at_start)
    /\ run.pc = "exited"

\* C12: a run that hit a hard failure (unreachable or non-RSS page, malformed
\* publication date, target date matching no item) exits with a status other
\* than 0, the status of a successful run.
C12_HardFailureNonZero ==
    (/\ run.pc = "exited"
     /\ run.source \in {"unreachable", "not_rss"} \/ HardFailureFormingNews)
        => run.exit_status # Some(0)

\* positions of handled at which a handler of this kind and method was called
CallsOf(news_handler, methods) ==
    { i \in 1..Len(run.handled) :
        /\ run.handled[i].news_handler = news_handler
        /\ run.handled[i].handler_method \in methods }

Printers == {"human_readable_printer", "json_printer"}

ConverterOf(format) == IF format = "to_html" THEN "HTMLConverter" ELSE "create_pdf"

\* C16: once start_processing has read the news from storage and ended, the
\* news were printed iff no conversion path was given or the JSON flag is
\* set; the converter of each format with a path was called exactly once,
\* after any printing, and no converter of a format without path was called.
C16_PrintAndConvert ==
    (run.pc \in {"return", "exited"} /\ ~IsNone(run.news_from_file)) =>
        /\ CallsOf("Printer", Printers) # {}
            <=> ((\A p \in 1..Len(run.paths) : IsNone(run.paths[p].path)) \/ run.json_flag)
        /\ Cardinality(CallsOf("Printer", Printers)) <= 1
        /\ \A p \in 1..Len(run.paths) :
            LET calls == CallsOf("FileConverter", {ConverterOf(run.paths[p].format)})
            IN  IF IsNone(run.paths[p].path)
                THEN calls = {}
                ELSE /\ Cardinality(calls) = 1
                     /\ \A i \in calls : run.handled[i].object_to_handle.path = run.paths[p].path
                     /\ \A i \in calls : \A j \in CallsOf("Printer", Printers) : j < i

\* C16 witness: a run with the JSON flag and one conversion path printed and
\* then converted.
C16_Witness ==
    /\ run.pc = "exited"
    /\ run.json_flag
    /\ IsNone(run.paths[1].path)
    /\ ~IsNone(run.paths[2].path)
    /\ Len(run.handled) = 2
    /\ run.handled[1].news_handler = "Printer"
    /\ run.handled[2].handler_method = "create_pdf"

\* C17: serialize_news leaves the list passed to it as it was; with the
\* LIST format the list it returns equals its input, with the JSON format
\* it has the input's length and holds at i the indent-4 JSON text of the
\* i-th input record.
C17_SerializeFrame ==
    \A i \in CallsOf("Printer", Printers) :
        LET input == run.call.result
            output == run.handled[i].object_to_handle.news
        IN  /\ run.news_from_file = Some(input)
            /\ Len(output) = Len(input)
            /\ IF run.json_flag
               THEN \A k \in 1..Len(input) :
                        output[k] = [json |-> "text", indent |-> 4,
                                     document |-> JsonDumpNews(input[k])]
               ELSE output = input

\* C17 witness: two records read from storage were serialized to JSON and
\* then handed to a converter.
C17_Witness ==
    /\ run.json_flag
    /\ CallsOf("Printer", {"json_printer"}) # {}
    /\ CallsOf("FileConverter", {"HTMLConverter"}) # {}
    /\ Len(run.call.result) = 2

\* number of positions of list that hold record r
Occurrences(list, r) == Cardinality({ i \in 1..Len(list) : list[i] = r })

\* two lists hold the same records the same number of times
SameRecords(a, b) ==
    /\ Len(a) = Len(b)
    /\ \A i \in 1..Len(a) : Occurrences(a, a[i]) = Occurrences(b, a[i])

\* the last call on the storage object was get_news_from_file
LastCallIsGet == run.pc = "storage" /\ run.call.op = "get"

\* C13: get_news_from_file with no date and no limit, called after
\* save_news_to_file(L), returns exactly the records of L: as many records,
\* each record of L as often as L holds it, equal field for field.
C13_SaveGetRoundTrip ==
    (/\ LastCallIsGet
     /\ ~IsNone(run.call.file_before)
     /\ IsNone(run.call.date)
     /\ IsNone(run.call.limit_before))
        => /\ run.call.raised = ""
           /\ SameRecords(run.call.result, run.saved)

\* C13 witness: two records saved out of date order, one of them with an
\* image marker in its description, were read back.
C13_Witness ==
    /\ LastCallIsGet
    /\ IsNone(run.call.date)
    /\ IsNone(run.call.limit_before)
    /\ Len(run.saved) = 2
    /\ ~DateLeq(run.saved[1].date, run.saved[2].date)
    /\ \E i \in 1..2 : \E j \in 1..Len(run.saved[i].description) :
            run.saved[i].description[j].kind = "marker"
    /\ Len(run.call.result) = 2

\* the records of the list saved last that a call with this date selects,
\* in the order of their dates
RECURSIVE OfDate(_, _)
OfDate(list, date) ==
    IF list = << >> THEN << >>
    ELSE (IF IsNone(date) THEN << Head(list) >>
          ELSE IF Head(list).date[1] = Val(date) THEN << Head(list) >> ELSE << >>)
            \o OfDate(Tail(list), date)

Selected(date) == OfDate(SortedByDate(run.saved), date)

Min(a, b) == IF a < b THEN a ELSE b

\* C14: a call of get_news_from_file that returns gives the first
\* min(limit, n) of the n records it selects when the object has a limit,
\* and all n when it has none; a limit above n is not an error.
C14_LimitOnRead ==
    (LastCallIsGet /\ run.call.raised = "")
        => LET selected == Selected(run.call.date)
               n == Len(selected)
           IN  IF IsNone(run.call.limit_before)
               THEN run.call.result = selected
               ELSE run.call.result = SubSeq(selected, 1, Min(Val(run.call.limit_before), n))

\* C14 witness: a call with limit 1 selected the two records of a date and
\* returned the first of them.
C14_Witness ==
    /\ LastCallIsGet
    /\ run.call.raised = ""
    /\ ~IsNone(run.call.date)
    /\ run.call.limit_before = Some(1)
    /\ Len(Selected(run.call.date)) = 2
    /\ run.call.result = << Selected(run.call.date)[1] >>

\* C15: get_news_from_file raises when the storage file does not exist, and
\* raises 'no news for the specified date' when the file holds no record of
\* the date asked for; it then returns no record and leaves the file as it was.
C15_ReadErrors ==
    LastCallIsGet =>
        /\ IsNone(run.call.file_before) =>
            /\ run.call.raised = "error: news storage file doesn't exist, run program with the 'source' argument first"
            /\ run.call.result = << >>
            /\ run.file = run.call.file_before
        /\ (/\ ~IsNone(run.call.file_before)
            /\ ~IsNone(run.call.date)
            /\ Selected(run.call.date) = << >>) =>
            /\ run.call.raised = "error: no news for the specified date"
            /\ run.call.result = << >>
            /\ run.file = run.call.file_before

\* C15 witness: a date was asked for of which the existing file holds no
\* record, and the call raised.
C15_Witness ==
    /\ LastCallIsGet
    /\ ~IsNone(run.call.file_before)
    /\ run.saved # << >>
    /\ ~IsNone(run.call.date)
    /\ Selected(run.call.date) = << >>
    /\ run.call.raised = "error: no news for the specified date"

\* C18: an img candidate is rejected by the duplicate rule only if a
\* candidate with the same source was accepted into the output earlier in
\* the same scan.
C18_DuplicateOnlyAfterAccepted ==
    \A k \in 1..Len(ScanLog) :
        ScanLog[k].outcome = "ImageDuplicateChecker"
            => \E h \in 1..(k - 1) :
                /\ ScanLog[h].tag.src = ScanLog[k].tag.src
                /\ ScanLog[h].outcome = "ok"

\* the checkers of html_image_checker that only read the tag, without
\* NoImageExistenceChecker, which guards the others against a missing source
PureCheckers ==
    { "ImageExtensionChecker", "NewsPageLogoChecker", "ImageDoubleColon",
      "ImageBBCComNotSrc", "StatsResearchLinks", "Icons" }

CheckerRejects(checker, tag) ==
    CASE checker = "ImageExtensionChecker" -> ImageExtensionChecker(tag)
      [] checker = "NewsPageLogoChecker" -> NewsPageLogoChecker(tag)
      [] checker = "ImageDoubleColon" -> ImageDoubleColon(tag)
      [] checker = "ImageBBCComNotSrc" -> ImageBBCComNotSrc(tag)
      [] checker = "StatsResearchLinks" -> StatsResearchLinks(tag)
      [] checker = "Icons" -> Icons(tag)

\* the results of html_image_checker for the img tags of one scan when the
\* checkers in before are evaluated ahead of ImageDuplicateChecker and the
\* other ones after it
RECURSIVE ResultsInOrder(_, _, _)
ResultsInOrder(tags, before, seen) ==
    IF tags = << >> THEN << >>
    ELSE LET tag == Head(tags)
             early == IF NoImageExistenceChecker(tag) THEN TRUE
                      ELSE \E c \in before : CheckerRejects(c, tag)
             duplicate == IF early THEN FALSE ELSE Val(tag.src) \in seen
             late == IF early \/ duplicate THEN FALSE
                     ELSE \E c \in PureCheckers \ before : CheckerRejects(c, tag)
         IN  << ~(early \/ duplicate \/ late) >>
                \o ResultsInOrder(Tail(tags), before,
                                  IF early \/ duplicate THEN seen
                                  ELSE seen \cup {Val(tag.src)})

\* C19: the result of html_image_checker for every img candidate of a scan
\* is the same whatever order the checkers are evaluated in.
C19_OrderIndependent ==
    (task # << >> /\ ScanLog # << >>) =>
        \A before \in SUBSET PureCheckers :
            LET results == ResultsInOrder(SubSeq(task[1].soup.imgs, 1, Len(ScanLog)), before, {})
            IN  \A k \in 1..Len(ScanLog) : results[k] = ImageAccepted(ScanLog[k])

\* C20: an img candidate whose alt text contains "href", whose source passes
\* the image checkers and is reachable, has its image in the output of the
\* scan, without caption.
C20_CaptionOnlyRejected ==
    \A k \in 1..Len(ScanLog) :
        (/\ ~IsNone(ScanLog[k].tag.alt)
         /\ Contains(Val(ScanLog[k].tag.alt), <<"h", "r", "e", "f">>)
         /\ ImageAccepted(ScanLog[k])
         /\ Get(Val(ScanLog[k].tag.src)) = "200")
            => \E j \in 1..Len(task[1].images) :
                /\ task[1].images[j].image = Val(ScanLog[k].tag.src)
                /\ ~Truthy(task[1].images[j].caption)

\* the last entry of the log of the scan
LastLogged(t) == t.log[Len(t.log)]

\* C21: a connection-level error raised by the nested-URL existence check or
\* by the reachability probe of an img candidate never ends the scan: no
\* scan is left by an exception of a network check.
C21_ConnectionErrorDropsCandidate ==
    \A i \in DOMAIN task :
        ~(/\ task[i].pc = "failed"
          /\ task[i].log # << >>
          /\ LastLogged(task[i]).outcome = "raised"
          /\ task[i].raised = "ConnectionError")

\* the URL get_nested_url builds for a source
Resolved(src, page_url) ==
    UrlScheme(page_url) \o SchemeSep \o UrlNetloc(page_url) \o <<"/">> \o src

IsAbsolute(src) == UrlScheme(src) # << >> /\ UrlNetloc(src) # << >>

IsRootRelative(src) == Find(src, SchemeSep) = 0 /\ src # << >> /\ Head(src) = "/"

\* the image emitted for the k-th accepted img tag of the log
RECURSIVE AcceptedBefore(_, _)
AcceptedBefore(log, k) ==
    IF k = 0 THEN 0
    ELSE AcceptedBefore(log, k - 1) + (IF log[k].outcome = "ok" THEN 1 ELSE 0)

\* C22: an accepted img candidate with an absolute source is emitted with
\* that source; the emitted URL differs from the source only for a
\* root-relative source whose resolved URL is not answered 404 and ends in
\* jpg or png, and then it is the resolved URL.
C22_AbsoluteSourceUnchanged ==
    \A i \in DOMAIN task :
        \A k \in 1..Len(task[i].log) :
            task[i].log[k].outcome = "ok" =>
                LET src == Val(task[i].log[k].tag.src)
                    emitted == task[i].images[AcceptedBefore(task[i].log, k)].image
                    resolved == Resolved(src, Val(task[i].link))
                IN  /\ IsAbsolute(src) => emitted = src
                    /\ emitted # src =>
                        /\ IsRootRelative(src)
                        /\ Get(resolved) # "404"
                        /\ EndsWithAny(resolved, { <<"j", "p", "g">>, <<"p", "n", "g">> })
                        /\ emitted = resolved

\* the positions of the img tags of a scan that were accepted
AcceptedTags(t) == { k \in 1..Len(t.log) : t.log[k].outcome = "ok" }

\* the positions of the hyperlinks of a page whose target ends in .jpg or .png
ImageHyperlinks(soup) ==
    { j \in 1..Len(soup.hrefs) :
        IF IsNone(soup.hrefs[j]) THEN FALSE
        ELSE EndsWithAny(Val(soup.hrefs[j]),
                         { <<".", "j", "p", "g">>, <<".", "p", "n", "g">> }) }

\* C23: the list form_img_data returns holds the accepted img-tag candidates
\* in document order, followed by the hyperlink-derived candidates in
\* document order.
C23_ImgThenHyperlinks ==
    \A i \in DOMAIN task :
        (task[i].pc = "done" /\ ~IsNone(task[i].container)) =>
            LET t == task[i]
                out == Val(t.container)
                n == Cardinality(AcceptedTags(t))
                h == Cardinality(ImageHyperlinks(t.soup))
            IN  /\ Len(out) = n + h
                /\ \A k \in 1..n :
                    LET tag == t.log[KthPosition(AcceptedTags(t), k)].tag IN
                    /\ out[k].image \in { Val(tag.src), Resolved(Val(tag.src), Val(t.link)) }
                    /\ out[k].caption = tag.alt
                /\ \A k \in 1..h :
                    out[n + k].image = Val(t.soup.hrefs[KthPosition(ImageHyperlinks(t.soup), k)])

\* C23 witness: a returned list with two img-derived candidates of different
\* sources followed by two hyperlink-derived candidates of different targets
C23_Witness ==
    /\ task # << >>
    /\ task[1].pc = "done"
    /\ Cardinality(AcceptedTags(task[1])) = 2
    /\ Cardinality(ImageHyperlinks(task[1].soup)) = 2
    /\ Val(task[1].container)[1].image # Val(task[1].container)[2].image
    /\ Val(task[1].container)[3].image # Val(task[1].container)[4].image

\* C24: every hyperlink whose target ends in .jpg or .png yields one
\* candidate with empty caption among the hyperlink-derived candidates,
\* whatever the image checkers would say of the target and whether or not an
\* img tag gave the same URL; a hyperlink with another target yields none.
C24_HyperlinksAlwaysAccepted ==
    \A i \in DOMAIN task :
        (task[i].pc = "done" /\ ~IsNone(task[i].container)) =>
            LET t == task[i]
                out == Val(t.container)
                n == Cardinality(AcceptedTags(t))
                derived == { k \in (n + 1)..Len(out) : TRUE }
            IN  /\ \A k \in derived : out[k].caption = Some(<< >>)
                /\ \A j \in 1..Len(t.soup.hrefs) :
                    LET same == { l \in 1..Len(t.soup.hrefs) : t.soup.hrefs[l] = t.soup.hrefs[j] }
                        from == IF IsNone(t.soup.hrefs[j]) THEN {}
                                ELSE { k \in derived : out[k].image = Val(t.soup.hrefs[j]) }
                    IN  Cardinality(from) = IF j \in ImageHyperlinks(t.soup)
                                            THEN Cardinality(same) ELSE 0

\* C24 witness: a page with a hyperlink to the source of an accepted img tag
\* and a hyperlink to a source the image checkers reject gave both
C24_Witness ==
    /\ task # << >>
    /\ task[1].pc = "done"
    /\ task[1].soup.hrefs = << Some(ImgA), Some(ImgBbc) >>
    /\ ImageBBCComNotSrc(ImgTag(Some(ImgBbc), None, "a", None))
    /\ \E k \in AcceptedTags(task[1]) : task[1].log[k].tag.src = Some(ImgA)
    /\ Len(Val(task[1].container)) = Cardinality(AcceptedTags(task[1])) + 2

\* the feed item of the NewsObject has a description tag with a string in it
InlineDescription(item) == item.description.tag /\ ~IsNone(item.description.string)

\* C25: form_news calls the page's form_description only for an item without
\* inline description; for an item with one, the description is the image
\* markers followed by the inline text without its markup, and
\* form_description is not called (nothing it raises reaches form_news).
C25_FallbackOnlyWithoutInline ==
    mainpc = "formed" =>
        LET item == news_list[1]
            descr == FormDescription(item, task[1].container, task[1].soup)
            markers == IF IsNone(task[1].container) THEN << >>
                       ELSE DescriptionMarkers(Val(task[1].container), 2)
        IN  /\ descr.fallback => ~InlineDescription(item)
            /\ InlineDescription(item) =>
                /\ ~descr.fallback
                /\ IsNone(error)
                /\ news_storage # << >>
                /\ news_storage[1].description =
                        GetText(markers \o StripTags(Val(item.description.string))
                                    \o << Text("\n") >>)

\* C25 witness: a record was formed from an inline description with markup,
\* after an image marker, for an item whose page gives form_description
\* nothing to return
C25_Witness ==
    /\ mainpc = "formed"
    /\ news_list[1].description = DescriptionTag(Some(InlineText))
    /\ task[1].container # None
    /\ Val(task[1].container) # << >>
    /\ form_description(task[1].soup).raised = "AttributeError"
    /\ news_storage # << >>

\* form_news asked the page for its description
FallbackInvoked ==
    /\ mainpc = "formed"
    /\ FormDescription(news_list[1], task[1].container, task[1].soup).fallback

\* what the five extractors give for a page, in the order meta description,
\* lead paragraph, Open-Graph description, title, first second-level heading
ExtractorsInPriorityOrder(soup) ==
    << [former |-> "description_meta_tag", result |-> description_meta_tag(soup)],
       [former |-> "description_tag_p_class_lead", result |-> description_tag_p_class_lead(soup)],
       [former |-> "description_property_og", result |-> description_property_og(soup)],
       [former |-> "description_title", result |-> description_title(soup)],
       [former |-> "description_header_two", result |-> description_header_two(soup)] >>

\* C26: when an extractor yields non-empty text, form_description returns
\* the text of the first one that does, in the order meta description, lead
\* paragraph, Open-Graph description, title, second-level heading, and it
\* has consulted exactly the extractors up to that one.
C26_FirstExtractorWins ==
    FallbackInvoked =>
        LET soup == task[1].soup
            extractors == ExtractorsInPriorityOrder(soup)
            yielding == { k \in 1..Len(extractors) : Truthy(extractors[k].result) }
            page == form_description(soup)
        IN  yielding # {} =>
                LET first == CHOOSE k \in yielding : \A j \in yielding : k <= j IN
                /\ page.raised = ""
                /\ page.value = extractors[first].result
                /\ page.consulted = [k \in 1..first |-> extractors[k].former]
                /\ IsNone(error)
                /\ news_storage[1].description =
                        GetText(DescriptionMarkers(Val(task[1].container), 2)
                                    \o Val(extractors[first].result) \o << Text("\n") >>)

\* C26 witness: the Open-Graph description was returned for a page whose
\* meta description and lead paragraph are empty and whose title and h2 have
\* text
C26_Witness ==
    /\ FallbackInvoked
    /\ task[1].soup.meta = Some(<< >>)
    /\ task[1].soup.lead = Some(<< >>)
    /\ Truthy(description_title(task[1].soup))
    /\ Truthy(description_header_two(task[1].soup))
    /\ news_storage # << >>
    /\ news_storage[1].description =
            GetText(DescriptionMarkers(Val(task[1].container), 2)
                        \o << Text("og"), Text("\n") >>)

\* C27: form_description returns a string for every page and raises nothing,
\* also when none of the five extractors produced text.
C27_AlwaysAString ==
    FallbackInvoked =>
        /\ form_description(task[1].soup).raised = ""
        /\ ~IsNone(form_description(task[1].soup).value)
        /\ IsNone(error)

\* form_news has returned or raised
FormNewsEnded == mainpc \in {"returned", "raised"}

\* C28: when form_news returns or raises, every enrichment task it submitted
\* has finished, also when the result of an earlier task raised.
C28_NoTaskOutlivesCall ==
    FormNewsEnded => \A i \in DOMAIN task : Done(task[i])

\* C28 witness: form_news raised on the failure of its first task, and its
\* second task, which scanned a page, had finished by then
C28_Witness ==
    /\ mainpc = "raised"
    /\ Len(task) = 2
    /\ task[1].pc = "failed"
    /\ task[2].pc = "done"
    /\ task[2].log # << >>

\* C29: a call of get_news_from_file leaves the limit of the NewsStorage
\* object as it was before the call.
C29_LimitUnchanged ==
    (run.pc = "storage" /\ run.call.op = "get") =>
        run.storage_limit = run.call.limit_before

\* the records of the storage file the run found
RecordsAtStart ==
    IF IsNone(run.file_at_start) THEN << >>
    ELSE GetAllNews(JsonLoad(Val(run.file_at_start)))

\* a run with a source and without date and limit has read the storage back
ReadBackAfterSave ==
    /\ run.source = "ok"
    /\ run.call.op = "get"
    /\ run.call.raised = ""
    /\ IsNone(run.call.date)
    /\ IsNone(run.call.limit_before)

\* C30: save_news_to_file replaces the content of the storage file: after a
\* save over a file that an earlier save wrote, get_news_from_file without
\* date and limit returns exactly the records saved last, and no record that
\* only the earlier file held.
C30_SaveReplaces ==
    ReadBackAfterSave =>
        /\ run.call.file_before = SaveNewsToFile(run.saved)
        /\ SameRecords(run.call.result, run.saved)
        /\ \A k \in 1..Len(RecordsAtStart) :
            Occurrences(run.saved, RecordsAtStart[k]) = 0
                => Occurrences(run.call.result, RecordsAtStart[k]) = 0

\* C30 witness: a run saved one record over a file with three records and
\* read back that record only
C30_Witness ==
    /\ ReadBackAfterSave
    /\ Len(RecordsAtStart) = 3
    /\ Len(run.saved) = 1
    /\ Len(run.call.result) = 1
    /\ \E k \in 1..3 : Occurrences(run.call.result, RecordsAtStart[k]) = 0

====
